---- MODULE Spec2Model ----
(***************************************************************************)
(* State-machine model of the storage layer in txdb.cpp: the coin-set      *)
(* store (CCoinsViewDB) and the block-tree store (CBlockTreeDB), both      *)
(* multiplexed over an ordered key-value store by a one-byte discriminator.*)
(*                                                                         *)
(* A store is a function from keys to values; its DOMAIN is the set of     *)
(* keys present.  A key is the tuple of its components, discriminator      *)
(* first; keys are ordered lexicographically, a proper prefix first, which *)
(* is the byte order of the encoded keys.                                  *)
(***************************************************************************)
EXTENDS Integers, Sequences, FiniteSets, TLC

VARIABLES
    cdb,            \* CCoinsViewDB::db, the committed content of the coin-set store
    cdisk,          \* the part of cdb's history that has reached stable storage
    tdb,            \* CBlockTreeDB, the committed content of the block-tree store
    tdisk,          \* the part of tdb's history that has reached stable storage
    mapBlockIndex,  \* the in-memory block-index graph, hash -> node
    nLoads,         \* the LoadBlockIndexGuts calls of this process so far
    hist,           \* history: what the committed calls so far handed to the writers
    undecodable,    \* the keys of the rows whose stored value is damaged
    polls,          \* the interruption_point calls that pass before a requested
                    \* interruption of the thread is seen; NoInterruption without one
    pcursor,        \* the cursor GetStats holds between NewIterator and its scan
    ev              \* the last operation: its name, arguments, result and pre-state

vars == <<cdb, cdisk, tdb, tdisk, mapBlockIndex, nLoads, hist, undecodable, polls,
          pcursor, ev>>

(***************************************************************************)
(* Table discriminators.                                                   *)
(***************************************************************************)
DB_ANCHOR == 65
DB_NULLIFIER == 115
DB_COINS == 99
DB_BLOCK_FILES == 102
DB_TXINDEX == 116
DB_ADDRESSINDEX == 100
DB_ADDRESSUNSPENTINDEX == 117
DB_TIMESTAMPINDEX == 83
DB_SPENTINDEX == 112
DB_BLOCK_INDEX == 98
DB_BEST_BLOCK == 66
DB_BEST_ANCHOR == 97
DB_FLAG == 70
DB_REINDEX_FLAG == 82
DB_LAST_BLOCK == 108

(***************************************************************************)
(* Bounds of the model.                                                    *)
(***************************************************************************)
NumTx == 2          \* transaction ids 1..NumTx
MaxEntries == 1     \* entries of an overlay handed to one BatchWrite call
NumBlockHash == 1   \* best-block hashes 1..NumBlockHash

\* uint256(): the null hash
NullHash == 0
\* ZCIncrementalMerkleTree::empty_root(): the root of the tree without leaves
EmptyRoot == 1
\* a default-constructed ZCIncrementalMerkleTree
EmptyTree == << >>
\* CTxOut::IsNull(): the value of a spent output
NullOut == -1

TxIds == 1..NumTx
Roots == {EmptyRoot, EmptyRoot + 1}
Trees == {EmptyTree, <<1>>}
Nullifiers == {1, 2}
BlockHashes == 1..NumBlockHash
\* CCoins::vout for a transaction of two outputs
CoinsVals == [{1, 2} -> {NullOut, 1}]

\* CCoins::IsPruned(): no output is left unspent
IsPruned(coins) == \A i \in DOMAIN coins : coins[i] = NullOut

(***************************************************************************)
(* The ordered key-value store: CDBBatch, CDBWrapper::WriteBatch, Read,    *)
(* Exists.                                                                 *)
(***************************************************************************)
EmptyDb == [k \in {} |-> 0]

BatchWriteOp(key, val) == [op |-> "W", key |-> key, val |-> val]
BatchEraseOp(key) == [op |-> "E", key |-> key, val |-> 0]

ApplyOp(db, o) ==
    IF o.op = "W"
    THEN [k \in DOMAIN db \cup {o.key} |-> IF k = o.key THEN o.val ELSE db[k]]
    ELSE [k \in DOMAIN db \ {o.key} |-> db[k]]

RECURSIVE ApplyBatch(_, _)
ApplyBatch(db, batch) ==
    IF batch = << >> THEN db
    ELSE ApplyBatch(ApplyOp(db, Head(batch)), Tail(batch))

\* CDBWrapper::WriteBatch: the whole batch or nothing
WriteBatch(db, batch, ok) == IF ok THEN ApplyBatch(db, batch) ELSE db

\* What a commit leaves on stable storage: a forced-durable commit flushes the
\* log up to and including this batch, another commit flushes nothing by itself.
DiskAfter(disk, dbAfter, fSync, ok) == IF ok /\ fSync THEN dbAfter ELSE disk

Exists(db, key) == key \in DOMAIN db
Read(db, key) ==
    IF key \in DOMAIN db THEN [ok |-> TRUE, val |-> db[key]]
    ELSE [ok |-> FALSE, val |-> 0]

\* The keys of S in some order, for the loops over an unordered map.
RECURSIVE SetToSeq(_)
SetToSeq(S) ==
    IF S = {} THEN << >>
    ELSE LET x == CHOOSE y \in S : TRUE IN <<x>> \o SetToSeq(S \ {x})

\* The maps with at most n keys of K and values in E.
MapsUpTo(K, E, n) ==
    UNION {[S -> E] : S \in {T \in SUBSET K : Cardinality(T) <= n}}

NoMap == [k \in {} |-> 0]

(***************************************************************************)
(* CCoinsViewDB: the point reads.                                          *)
(***************************************************************************)
GetAnchorAt_NoSpecialCase(db, rt) ==
    LET r == Read(db, <<DB_ANCHOR, rt>>)
    IN  [ok |-> r.ok, tree |-> IF r.ok THEN r.val ELSE EmptyTree]

GetAnchorAt(db, rt) ==
    IF rt = EmptyRoot THEN [ok |-> TRUE, tree |-> EmptyTree]
    ELSE LET r == Read(db, <<DB_ANCHOR, rt>>)
         IN  [ok |-> r.ok, tree |-> IF r.ok THEN r.val ELSE EmptyTree]

GetNullifier(db, nf) == Read(db, <<DB_NULLIFIER, nf>>).ok

GetCoins(db, txid) == Read(db, <<DB_COINS, txid>>)

HaveCoins(db, txid) == Exists(db, <<DB_COINS, txid>>)

GetBestBlock(db) ==
    LET r == Read(db, <<DB_BEST_BLOCK>>) IN IF ~r.ok THEN NullHash ELSE r.val

GetBestAnchor_NullDefault(db) ==
    LET r == Read(db, <<DB_BEST_ANCHOR>>) IN IF ~r.ok THEN NullHash ELSE r.val

GetBestAnchor(db) ==
    LET r == Read(db, <<DB_BEST_ANCHOR>>) IN IF ~r.ok THEN EmptyRoot ELSE r.val

(***************************************************************************)
(* CCoinsViewDB::BatchWrite: the batch built from the three overlays.      *)
(***************************************************************************)
CoinsEntries == [dirty : BOOLEAN, coins : CoinsVals]
AnchorsEntries == [dirty : BOOLEAN, entered : BOOLEAN, tree : Trees]
NullifiersEntries == [dirty : BOOLEAN, entered : BOOLEAN]

CoinOp_WriteWhenPruned(txid, e) ==
    IF ~e.dirty THEN << >>
    ELSE <<BatchWriteOp(<<DB_COINS, txid>>, e.coins)>>

\* lines 96-102: the batch operations of one coin entry
CoinOp(txid, e) ==
    IF ~e.dirty THEN << >>
    ELSE IF IsPruned(e.coins) THEN <<BatchEraseOp(<<DB_COINS, txid>>)>>
    ELSE <<BatchWriteOp(<<DB_COINS, txid>>, e.coins)>>

AnchorOp_WriteNotEntered(rt, e) ==
    IF ~e.dirty THEN << >>
    ELSE <<BatchWriteOp(<<DB_ANCHOR, rt>>, e.tree)>>

\* lines 109-116: the batch operations of one anchor entry
AnchorOp(rt, e) ==
    IF ~e.dirty THEN << >>
    ELSE IF ~e.entered THEN <<BatchEraseOp(<<DB_ANCHOR, rt>>)>>
    ELSE <<BatchWriteOp(<<DB_ANCHOR, rt>>, e.tree)>>

NullifierOp_WriteFalse(nf, e) ==
    IF ~e.dirty THEN << >>
    ELSE <<BatchWriteOp(<<DB_NULLIFIER, nf>>, e.entered)>>

NullifierOp_IgnoreDirty(nf, e) ==
    IF ~e.entered THEN <<BatchEraseOp(<<DB_NULLIFIER, nf>>)>>
    ELSE <<BatchWriteOp(<<DB_NULLIFIER, nf>>, TRUE)>>

\* lines 122-128: the batch operations of one nullifier entry
NullifierOp(nf, e) ==
    IF ~e.dirty THEN << >>
    ELSE IF ~e.entered THEN <<BatchEraseOp(<<DB_NULLIFIER, nf>>)>>
    ELSE <<BatchWriteOp(<<DB_NULLIFIER, nf>>, TRUE)>>

RECURSIVE CoinOps(_, _)
CoinOps(mapCoins, keys) ==
    IF keys = << >> THEN << >>
    ELSE CoinOp(Head(keys), mapCoins[Head(keys)]) \o CoinOps(mapCoins, Tail(keys))

RECURSIVE AnchorOps(_, _)
AnchorOps(mapAnchors, keys) ==
    IF keys = << >> THEN << >>
    ELSE AnchorOp(Head(keys), mapAnchors[Head(keys)]) \o AnchorOps(mapAnchors, Tail(keys))

RECURSIVE NullifierOps(_, _)
NullifierOps(mapNullifiers, keys) ==
    IF keys = << >> THEN << >>
    ELSE NullifierOp(Head(keys), mapNullifiers[Head(keys)])
             \o NullifierOps(mapNullifiers, Tail(keys))

BestOps_Always(hashBlock, hashAnchor) ==
    <<BatchWriteOp(<<DB_BEST_BLOCK>>, hashBlock), BatchWriteOp(<<DB_BEST_ANCHOR>>, hashAnchor)>>

\* lines 133-136: the best-block and best-anchor pointers
BestOps(hashBlock, hashAnchor) ==
    (IF hashBlock # NullHash THEN <<BatchWriteOp(<<DB_BEST_BLOCK>>, hashBlock)>> ELSE << >>)
    \o (IF hashAnchor # NullHash THEN <<BatchWriteOp(<<DB_BEST_ANCHOR>>, hashAnchor)>> ELSE << >>)

CoinsBatch(mapCoins, hashBlock, hashAnchor, mapAnchors, mapNullifiers) ==
    CoinOps(mapCoins, SetToSeq(DOMAIN mapCoins))
    \o AnchorOps(mapAnchors, SetToSeq(DOMAIN mapAnchors))
    \o NullifierOps(mapNullifiers, SetToSeq(DOMAIN mapNullifiers))
    \o BestOps(hashBlock, hashAnchor)

\* line 139: the coin-set batch is committed without forced durability
BatchWrite_fSync == FALSE

BatchWrite_CommitEach(db, batch, ok) ==
    IF ok \/ batch = << >> THEN ApplyBatch(db, batch)
    ELSE ApplyBatch(db, SubSeq(batch, 1, Len(batch) - 1))

\* line 139: one WriteBatch call commits everything the loops collected
BatchWrite_Commit(db, batch, ok) == WriteBatch(db, batch, ok)

Drain_DirtyOnly(map, keys) == [k \in {x \in DOMAIN map : ~map[x].dirty} |-> map[k]]

\* lines 104-105, 117-118, 129-130: every entry the loop visits is erased from
\* the caller's map, whatever its flags
RECURSIVE Drain(_, _)
Drain(map, keys) ==
    IF keys = << >> THEN map
    ELSE Drain([k \in DOMAIN map \ {Head(keys)} |-> map[k]], Tail(keys))

\* A committed batch replaces the stored bytes of the rows it writes or erases.
Rewritten(batch, ok) ==
    IF ok THEN undecodable \ {batch[i].key : i \in DOMAIN batch} ELSE undecodable

\* history: the entered flag of the last dirty entry committed for each
\* nullifier, and the last non-null best pointers committed
Committed(h, hashBlock, hashAnchor, mapNullifiers) ==
    LET dirty == {n \in DOMAIN mapNullifiers : mapNullifiers[n].dirty}
    IN  [h EXCEPT !.nf = [n \in DOMAIN h.nf \cup dirty |->
                             IF n \in dirty THEN mapNullifiers[n].entered ELSE h.nf[n]],
                  !.bestBlock = IF hashBlock # NullHash THEN hashBlock ELSE @,
                  !.bestAnchor = IF hashAnchor # NullHash THEN hashAnchor ELSE @]

BatchWrite(mapCoins, hashBlock, hashAnchor, mapAnchors, mapNullifiers, ok) ==
    LET batch == CoinsBatch(mapCoins, hashBlock, hashAnchor, mapAnchors, mapNullifiers)
        after == BatchWrite_Commit(cdb, batch, ok)
    IN  /\ ev.op = "idle"
        /\ cdb' = after
        /\ cdisk' = DiskAfter(cdisk, after, BatchWrite_fSync, ok)
        /\ hist' = IF ok THEN Committed(hist, hashBlock, hashAnchor, mapNullifiers) ELSE hist
        /\ ev' = [op |-> "BatchWrite", mapCoins |-> mapCoins, hashBlock |-> hashBlock,
                  hashAnchor |-> hashAnchor, mapAnchors |-> mapAnchors,
                  mapNullifiers |-> mapNullifiers,
                  mapCoinsAfter |-> Drain(mapCoins, SetToSeq(DOMAIN mapCoins)),
                  mapAnchorsAfter |-> Drain(mapAnchors, SetToSeq(DOMAIN mapAnchors)),
                  mapNullifiersAfter |-> Drain(mapNullifiers, SetToSeq(DOMAIN mapNullifiers)),
                  store |-> "coins", batch |-> batch, ret |-> ok, before |-> cdb]
        /\ undecodable' = Rewritten(batch, ok)
        /\ UNCHANGED <<tdb, tdisk, mapBlockIndex, nLoads, polls, pcursor>>

(***************************************************************************)
(* CBlockTreeDB: the batched writers.  Each builds one batch and commits   *)
(* it with one WriteBatch call.                                            *)
(***************************************************************************)
\* CSpentIndexValue::IsNull(), CAddressUnspentValue::IsNull()
NullValue == 0

\* CDiskBlockIndex(pindex): the stored fields of a block-index node
CDiskBlockIndex(pindex) ==
    [hashPrev |-> pindex.hashPrev, nHeight |-> pindex.nHeight, nBits |-> pindex.nBits]

RECURSIVE FileInfoOps(_)
FileInfoOps(fileInfo) ==
    IF fileInfo = << >> THEN << >>
    ELSE <<BatchWriteOp(<<DB_BLOCK_FILES, Head(fileInfo)[1]>>, Head(fileInfo)[2])>>
             \o FileInfoOps(Tail(fileInfo))

RECURSIVE BlockIndexWriteOps(_)
BlockIndexWriteOps(blockinfo) ==
    IF blockinfo = << >> THEN << >>
    ELSE <<BatchWriteOp(<<DB_BLOCK_INDEX, Head(blockinfo).hash>>,
                        CDiskBlockIndex(Head(blockinfo)))>>
             \o BlockIndexWriteOps(Tail(blockinfo))

RECURSIVE BlockIndexEraseOps(_)
BlockIndexEraseOps(blockinfo) ==
    IF blockinfo = << >> THEN << >>
    ELSE <<BatchEraseOp(<<DB_BLOCK_INDEX, Head(blockinfo).hash>>)>>
             \o BlockIndexEraseOps(Tail(blockinfo))

\* vect of (key, value): every pair is written under table disc
RECURSIVE WriteAllOps(_, _)
WriteAllOps(disc, vect) ==
    IF vect = << >> THEN << >>
    ELSE <<BatchWriteOp(<<disc>> \o Head(vect)[1], Head(vect)[2])>>
             \o WriteAllOps(disc, Tail(vect))

\* vect of (key, value): every key is erased from table disc
RECURSIVE EraseAllOps(_, _)
EraseAllOps(disc, vect) ==
    IF vect = << >> THEN << >>
    ELSE <<BatchEraseOp(<<disc>> \o Head(vect)[1])>> \o EraseAllOps(disc, Tail(vect))

RECURSIVE UpdateOps_WriteNull(_, _)
UpdateOps_WriteNull(disc, vect) ==
    IF vect = << >> THEN << >>
    ELSE <<BatchWriteOp(<<disc>> \o Head(vect)[1], Head(vect)[2])>>
             \o UpdateOps_WriteNull(disc, Tail(vect))

\* vect of (key, value): a null value erases its key, another is written
RECURSIVE UpdateOps(_, _)
UpdateOps(disc, vect) ==
    IF vect = << >> THEN << >>
    ELSE (IF Head(vect)[2] = NullValue
          THEN <<BatchEraseOp(<<disc>> \o Head(vect)[1])>>
          ELSE <<BatchWriteOp(<<disc>> \o Head(vect)[1], Head(vect)[2])>>)
             \o UpdateOps(disc, Tail(vect))

WriteBatchSync_NoSync == FALSE

\* lines 220, 228: the block-index batches are committed with fSync = true
WriteBatchSync_fSync == TRUE
EraseBatchSync_fSync == TRUE
\* lines 239, 255, 267, 300, 307, 347: WriteBatch(batch), fSync left at false
SecondaryIndex_fSync == FALSE

\* One batch committed to the block-tree store by the operation called name.
TreeCommit(name, batch, fSync, ok) ==
    LET after == WriteBatch(tdb, batch, ok)
    IN  /\ ev.op = "idle"
        /\ tdb' = after
        /\ tdisk' = DiskAfter(tdisk, after, fSync, ok)
        /\ ev' = [op |-> name, store |-> "tree", batch |-> batch, ret |-> ok,
                  before |-> tdb]
        /\ undecodable' = Rewritten(batch, ok)
        /\ UNCHANGED <<cdb, cdisk, mapBlockIndex, nLoads, polls, pcursor>>

WriteBatchSync(fileInfo, nLastFile, blockinfo, ok) ==
    /\ TreeCommit("WriteBatchSync",
                  FileInfoOps(fileInfo)
                      \o <<BatchWriteOp(<<DB_LAST_BLOCK>>, nLastFile)>>
                      \o BlockIndexWriteOps(blockinfo),
                  WriteBatchSync_fSync, ok)
    /\ UNCHANGED hist

EraseBatchSync(blockinfo, ok) ==
    /\ TreeCommit("EraseBatchSync", BlockIndexEraseOps(blockinfo), EraseBatchSync_fSync, ok)
    /\ UNCHANGED hist

WriteTxIndex(vect, ok) ==
    /\ TreeCommit("WriteTxIndex", WriteAllOps(DB_TXINDEX, vect), SecondaryIndex_fSync, ok)
    /\ UNCHANGED hist

\* history: the value of the last entry of vect for each key it names
RECURSIVE SpentSupplied(_, _)
SpentSupplied(spent, vect) ==
    IF vect = << >> THEN spent
    ELSE LET key == Head(vect)[1]
         IN  SpentSupplied([k \in DOMAIN spent \cup {key} |->
                               IF k = key THEN Head(vect)[2] ELSE spent[k]],
                           Tail(vect))

UpdateSpentIndex(vect, ok) ==
    /\ TreeCommit("UpdateSpentIndex", UpdateOps(DB_SPENTINDEX, vect), SecondaryIndex_fSync, ok)
    /\ hist' = IF ok THEN [hist EXCEPT !.spent = SpentSupplied(@, vect)] ELSE hist

UpdateAddressUnspentIndex(vect, ok) ==
    /\ TreeCommit("UpdateAddressUnspentIndex", UpdateOps(DB_ADDRESSUNSPENTINDEX, vect),
                  SecondaryIndex_fSync, ok)
    /\ UNCHANGED hist

WriteAddressIndex(vect, ok) ==
    /\ TreeCommit("WriteAddressIndex", WriteAllOps(DB_ADDRESSINDEX, vect),
                  SecondaryIndex_fSync, ok)
    /\ UNCHANGED hist

EraseAddressIndex(vect, ok) ==
    /\ TreeCommit("EraseAddressIndex", EraseAllOps(DB_ADDRESSINDEX, vect),
                  SecondaryIndex_fSync, ok)
    /\ UNCHANGED hist

WriteTimestampIndex(timestampIndex, ok) ==
    /\ TreeCommit("WriteTimestampIndex",
                  <<BatchWriteOp(<<DB_TIMESTAMPINDEX>> \o timestampIndex, 0)>>,
                  SecondaryIndex_fSync, ok)
    /\ UNCHANGED hist

\* lines 149-154: the reindexing flag is a row that is there or not
WriteReindexing(fReindexing, ok) ==
    /\ TreeCommit("WriteReindexing",
                  IF fReindexing THEN <<BatchWriteOp(<<DB_REINDEX_FLAG>>, 49)>>
                  ELSE <<BatchEraseOp(<<DB_REINDEX_FLAG>>)>>,
                  SecondaryIndex_fSync, ok)
    /\ UNCHANGED hist

\* lines 370-372: a named flag is stored as the character '1' or '0'
WriteFlag(name, fValue, ok) ==
    /\ TreeCommit("WriteFlag",
                  <<BatchWriteOp(<<DB_FLAG, name>>, IF fValue THEN 49 ELSE 48)>>,
                  SecondaryIndex_fSync, ok)
    /\ UNCHANGED hist

\* lines 145-147
ReadBlockFileInfo(db, nFile) == Read(db, <<DB_BLOCK_FILES, nFile>>)

\* lines 156-159: always returns true
ReadReindexing(db) == [ret |-> TRUE, fReindexing |-> Exists(db, <<DB_REINDEX_FLAG>>)]

\* lines 161-163
ReadLastBlockFile(db) == Read(db, <<DB_LAST_BLOCK>>)

\* lines 231-233
ReadTxIndex(db, txid) == Read(db, <<DB_TXINDEX, txid>>)

\* lines 374-380: fValue is the caller's, left alone when the flag is absent
ReadFlag(db, name, fValue) ==
    LET r == Read(db, <<DB_FLAG, name>>)
    IN  IF ~r.ok THEN [ret |-> FALSE, fValue |-> fValue]
        ELSE [ret |-> TRUE, fValue |-> (r.val = 49)]

\* lines 242-244
ReadSpentIndex(db, key) == Read(db, <<DB_SPENTINDEX>> \o key)

(***************************************************************************)
(* CDBIterator: the cursor.  Seek positions it at the first key not below  *)
(* the given one, Next advances it in key order, GetKey decodes the key at *)
(* the cursor into the shape the caller asks for.                          *)
(***************************************************************************)
KeyLess(a, b) ==
    \/ \E i \in 1..Len(a) :
          /\ i <= Len(b)
          /\ a[i] < b[i]
          /\ \A j \in 1..(i - 1) : a[j] = b[j]
    \/ /\ Len(a) < Len(b)
       /\ \A j \in 1..Len(a) : a[j] = b[j]

RECURSIVE SortKeys(_)
SortKeys(S) ==
    IF S = {} THEN << >>
    ELSE LET m == CHOOSE x \in S : \A y \in S \ {x} : KeyLess(x, y)
         IN  <<m>> \o SortKeys(S \ {m})

\* NewIterator() then Seek(key): the keys the cursor will visit, in order
Seek(db, key) == SortKeys({k \in DOMAIN db : ~KeyLess(k, key)})

\* GetKey into a key of n components: fails on a key too short to hold them
GetKey(k, n) == Len(k) >= n

\* GetValue at the row of key k: fails when the stored bytes do not decode
GetValue(k) == k \notin undecodable

\* no interruption of the thread is requested
NoInterruption == -1

\* boost::this_thread::interruption_point() with n polls left to pass: throws
\* thread_interrupted once the interruption has been requested
InterruptionPoint(n) == n = 0

Passed_PollOnce(n) == NoInterruption

\* the polls left after one that passed
Passed(n) == IF n > 0 THEN n - 1 ELSE n

\* the interruption state a scan leaves: a thrown interruption is consumed, one
\* requested while the scan ran is pending at the first poll of the next scan
PollsAfter(interrupted) ==
    IF interrupted \/ polls = NoInterruption THEN NoInterruption ELSE 0

ErrorReturn_Success == TRUE

\* lines 195, 286, 336, 425: return error(...), which logs and yields false
ErrorReturn == FALSE

\* GetStats holds no cursor
NoCursor == [open |-> FALSE, snapshot |-> EmptyDb]

(***************************************************************************)
(* CBlockTreeDB: the range readers.  Each is the loop over the keys the    *)
(* cursor visits; the result is what the loop returns and what it has      *)
(* pushed to the output vector.                                            *)
(***************************************************************************)
\* lines 277-291: n is the number of polls left to pass
RECURSIVE ScanAddressUnspent(_, _, _, _, _)
ScanAddressUnspent(db, keys, addressHash, out, n) ==
    IF keys = << >> THEN [ret |-> TRUE, interrupted |-> FALSE, out |-> out]
    ELSE IF InterruptionPoint(n) THEN [ret |-> FALSE, interrupted |-> TRUE, out |-> out]
    ELSE LET k == Head(keys)
         IN  IF GetKey(k, 5) /\ k[1] = DB_ADDRESSUNSPENTINDEX /\ k[3] = addressHash
             THEN IF GetValue(k)
                  THEN ScanAddressUnspent(db, Tail(keys), addressHash,
                                          Append(out, <<Tail(k), db[k]>>), Passed(n))
                  ELSE [ret |-> ErrorReturn, interrupted |-> FALSE, out |-> out]
             ELSE [ret |-> TRUE, interrupted |-> FALSE, out |-> out]

ReadAddressUnspentIndex(db, addressHash, type) ==
    ScanAddressUnspent(db, Seek(db, <<DB_ADDRESSUNSPENTINDEX, type, addressHash>>),
                       addressHash, << >>, polls)

RECURSIVE ScanAddressIndex(_, _, _, _, _, _)
ScanAddressIndex(db, keys, addressHash, end, out, n) ==
    IF keys = << >> THEN [ret |-> TRUE, interrupted |-> FALSE, out |-> out]
    ELSE IF InterruptionPoint(n) THEN [ret |-> FALSE, interrupted |-> TRUE, out |-> out]
    ELSE LET k == Head(keys)
         IN  IF GetKey(k, 6) /\ k[1] = DB_ADDRESSINDEX /\ k[3] = addressHash
             THEN IF end > 0 /\ k[4] > end
                  THEN [ret |-> TRUE, interrupted |-> FALSE, out |-> out]
                  ELSE IF GetValue(k)
                  THEN ScanAddressIndex(db, Tail(keys), addressHash, end,
                                        Append(out, <<Tail(k), db[k]>>), Passed(n))
                  ELSE [ret |-> ErrorReturn, interrupted |-> FALSE, out |-> out]
             ELSE [ret |-> TRUE, interrupted |-> FALSE, out |-> out]

ReadAddressIndex(db, addressHash, type, start, end) ==
    ScanAddressIndex(db,
                     IF start > 0 /\ end > 0
                     THEN Seek(db, <<DB_ADDRESSINDEX, type, addressHash, start>>)
                     ELSE Seek(db, <<DB_ADDRESSINDEX, type, addressHash>>),
                     addressHash, end, << >>, polls)

TimestampInRange_Exclusive(timestamp, high) == timestamp < high

\* line 359: key.second.timestamp <= high
TimestampInRange(timestamp, high) == timestamp <= high

RECURSIVE ScanTimestamp(_, _, _, _)
ScanTimestamp(keys, high, hashes, n) ==
    IF keys = << >> THEN [ret |-> TRUE, interrupted |-> FALSE, hashes |-> hashes]
    ELSE IF InterruptionPoint(n)
    THEN [ret |-> FALSE, interrupted |-> TRUE, hashes |-> hashes]
    ELSE LET k == Head(keys)
         IN  IF GetKey(k, 3) /\ k[1] = DB_TIMESTAMPINDEX /\ TimestampInRange(k[2], high)
             THEN ScanTimestamp(Tail(keys), high, Append(hashes, k[3]), Passed(n))
             ELSE [ret |-> TRUE, interrupted |-> FALSE, hashes |-> hashes]

ReadTimestampIndex(db, high, low) ==
    ScanTimestamp(Seek(db, <<DB_TIMESTAMPINDEX, low>>), high, << >>, polls)

(***************************************************************************)
(* The block-index graph and CBlockTreeDB::LoadBlockIndexGuts.             *)
(* A header is modelled by its previous-block hash and its difficulty      *)
(* bits; a node of the graph by its parent, height and bits.               *)
(***************************************************************************)
\* CBlockHeader::GetHash(): the identity hash, a one-to-one function of the
\* header fields (two values of nBits)
GetHash(header) == 2 * header.hashPrevBlock + header.nBits

\* CDiskBlockIndex::GetBlockHash(): the hash of the header the record stores
DiskGetBlockHash(diskindex) ==
    GetHash([hashPrevBlock |-> diskindex.hashPrev, nBits |-> diskindex.nBits])

\* CheckProofOfWork(hash, nBits, params): the hash does not exceed the target
\* that nBits encodes
CheckProofOfWork(hash, nBits) == hash <= 2 ^ nBits

\* a freshly allocated CBlockIndex
NewBlockIndex == [pprev |-> NullHash, nHeight |-> 0, nBits |-> 0]

\* InsertBlockIndex(hash): NULL for the null hash, else the node of that hash,
\* allocated when the graph has none
InsertBlockIndex(graph, hash) ==
    IF hash = NullHash \/ hash \in DOMAIN graph THEN graph
    ELSE [h \in DOMAIN graph \cup {hash} |-> IF h = hash THEN NewBlockIndex ELSE graph[h]]

PopulateIndex_NoParentNode(graph, diskindex) ==
    LET hash == DiskGetBlockHash(diskindex)
        g == InsertBlockIndex(graph, hash)
    IN  [g EXCEPT ![hash] = [pprev |-> diskindex.hashPrev,
                             nHeight |-> diskindex.nHeight,
                             nBits |-> diskindex.nBits]]

\* lines 396-413: the node of the record's hash and the node of its previous
\* hash are fetched or inserted, and the stored fields copied into the former
PopulateIndex(graph, diskindex) ==
    LET hash == DiskGetBlockHash(diskindex)
        g == InsertBlockIndex(InsertBlockIndex(graph, hash), diskindex.hashPrev)
    IN  [g EXCEPT ![hash] = [pprev |-> diskindex.hashPrev,
                             nHeight |-> diskindex.nHeight,
                             nBits |-> diskindex.nBits]]

\* CBlockIndex::GetBlockHeader(): the header rebuilt from the node
GetBlockHeader(graph, hash) ==
    [hashPrevBlock |-> graph[hash].pprev, nBits |-> graph[hash].nBits]

\* lines 389-432: the loop over the keys the cursor visits
RECURSIVE ScanBlockIndex(_, _, _, _)
ScanBlockIndex(db, keys, graph, n) ==
    IF keys = << >> THEN [ret |-> TRUE, interrupted |-> FALSE, graph |-> graph]
    ELSE IF InterruptionPoint(n)
    THEN [ret |-> FALSE, interrupted |-> TRUE, graph |-> graph]
    ELSE LET k == Head(keys)
         IN  IF GetKey(k, 2) /\ k[1] = DB_BLOCK_INDEX
             THEN IF GetValue(k)
                  THEN LET hash == DiskGetBlockHash(db[k])
                           g == PopulateIndex(graph, db[k])
                       IN  IF GetHash(GetBlockHeader(g, hash)) # hash
                           THEN [ret |-> FALSE, interrupted |-> FALSE, graph |-> g]
                           ELSE IF ~CheckProofOfWork(hash, g[hash].nBits)
                           THEN [ret |-> FALSE, interrupted |-> FALSE, graph |-> g]
                           ELSE ScanBlockIndex(db, Tail(keys), g, Passed(n))
                  ELSE [ret |-> ErrorReturn, interrupted |-> FALSE, graph |-> graph]
             ELSE [ret |-> TRUE, interrupted |-> FALSE, graph |-> graph]

LoadBlockIndexGuts(db, graph) ==
    ScanBlockIndex(db, Seek(db, <<DB_BLOCK_INDEX, NullHash>>), graph, polls)

(***************************************************************************)
(* CCoinsViewDB::GetStats: the scan over the coin table.                   *)
(***************************************************************************)
\* a CCoinsStats as its constructor leaves it
CCoinsStats ==
    [nHeight |-> 0, hashBlock |-> NullHash, nTransactions |-> 0,
     nTransactionOutputs |-> 0, nSerializedSize |-> 0, hashSerialized |-> << >>,
     nTotalAmount |-> 0]

\* CDBIterator::GetValueSize(): the size of the encoded value at the cursor
GetValueSize(coins) == Len(coins)

\* the heights a lookup through a missing graph node can yield
AnyHeight == {0, 1}

FoldOutputs_CountNull(vout, i, acc) ==
    [stats |-> [acc.stats EXCEPT !.nTransactionOutputs = @ + Len(vout)],
     ss |-> acc.ss, nTotalAmount |-> acc.nTotalAmount + vout[1] + vout[2]]

\* lines 183-191: the outputs of one Coin Record from index i on; acc holds
\* stats, the hash writer ss and the local nTotalAmount
RECURSIVE FoldOutputs(_, _, _)
FoldOutputs(vout, i, acc) ==
    IF i > Len(vout) THEN acc
    ELSE IF vout[i] # NullOut
    THEN FoldOutputs(vout, i + 1,
             [stats |-> [acc.stats EXCEPT !.nTransactionOutputs = @ + 1],
              ss |-> acc.ss \o <<i, vout[i]>>,
              nTotalAmount |-> acc.nTotalAmount + vout[i]])
    ELSE FoldOutputs(vout, i + 1, acc)

\* lines 176-201: the loop over the keys the cursor visits
RECURSIVE ScanCoins(_, _, _, _)
ScanCoins(db, keys, acc, n) ==
    IF keys = << >> THEN [ret |-> TRUE, interrupted |-> FALSE, acc |-> acc]
    ELSE IF InterruptionPoint(n) THEN [ret |-> FALSE, interrupted |-> TRUE, acc |-> acc]
    ELSE LET k == Head(keys)
         IN  IF GetKey(k, 2) /\ k[1] = DB_COINS
             THEN IF GetValue(k)
                  THEN LET counted == [acc EXCEPT !.stats.nTransactions = @ + 1]
                           folded == FoldOutputs(db[k], 1, counted)
                       IN  ScanCoins(db, Tail(keys),
                               [stats |-> [folded.stats EXCEPT
                                    !.nSerializedSize = @ + 32 + GetValueSize(db[k])],
                                ss |-> folded.ss \o <<0>>,
                                nTotalAmount |-> folded.nTotalAmount],
                               Passed(n))
                  ELSE [ret |-> ErrorReturn, interrupted |-> FALSE, acc |-> acc]
             ELSE [ret |-> TRUE, interrupted |-> FALSE, acc |-> acc]

\* lines 202-205: mapBlockIndex.find(stats.hashBlock)->second->nHeight.  With no
\* node for the hash, find returns end() and the read through it is undefined:
\* the process dies or some value is read.
HeightLookup(graph, hashBlock) ==
    IF hashBlock \in DOMAIN graph
    THEN {[crashed |-> FALSE, nHeight |-> graph[hashBlock].nHeight]}
    ELSE {[crashed |-> TRUE, nHeight |-> 0]}
             \cup {[crashed |-> FALSE, nHeight |-> h] : h \in AnyHeight}

\* The outcomes of GetStats(stats) on a fresh stats: the cursor of line 169
\* iterates over snapshot, the content of the store when it was created, and
\* GetBestBlock() of line 173 reads db, the content when that line runs.
GetStatsAt(snapshot, db, graph) ==
    LET hashBlock == GetBestBlock(db)
        scan == ScanCoins(snapshot, Seek(snapshot, <<DB_COINS>>),
                          [stats |-> [CCoinsStats EXCEPT !.hashBlock = hashBlock],
                           ss |-> <<hashBlock>>, nTotalAmount |-> 0], polls)
        acc == scan.acc
    IN  IF scan.interrupted \/ ~scan.ret
        THEN {[ret |-> scan.ret, crashed |-> FALSE, interrupted |-> scan.interrupted,
               stats |-> acc.stats]}
        ELSE {[ret |-> ~h.crashed, crashed |-> h.crashed, interrupted |-> FALSE,
               stats |-> [acc.stats EXCEPT !.nHeight = h.nHeight,
                                           !.hashSerialized = acc.ss,
                                           !.nTotalAmount = acc.nTotalAmount]] :
                 h \in HeightLookup(graph, hashBlock)}

\* GetStats with no write committing between lines 169 and 173
GetStats(db, graph) == GetStatsAt(db, db, graph)

(***************************************************************************)
(* The environment of the stores: the operating system writes the log back *)
(* at a time of its own, and a crash leaves what had reached stable        *)
(* storage.                                                                *)
(***************************************************************************)
Flush ==
    /\ ev.op = "idle"
    /\ cdisk # cdb \/ tdisk # tdb
    /\ \E c \in {cdisk, cdb} : \E t \in {tdisk, tdb} :
          /\ <<c, t>> # <<cdisk, tdisk>>
          /\ cdisk' = c
          /\ tdisk' = t
    /\ UNCHANGED <<cdb, tdb, mapBlockIndex, nLoads, hist, undecodable, polls, pcursor, ev>>

Crash ==
    /\ ev.op = "idle"
    /\ cdb' = cdisk
    /\ tdb' = tdisk
    /\ mapBlockIndex' = NoMap
    /\ nLoads' = 0
    /\ ev' = [op |-> "Crash", cdbBefore |-> cdb, tdbBefore |-> tdb]
    /\ polls' = NoInterruption
    /\ pcursor' = NoCursor
    /\ UNCHANGED <<cdisk, tdisk, hist, undecodable>>

\* The stored bytes of the value of one row are damaged.
DamageValue(k) ==
    /\ ev.op = "idle"
    /\ k \in (DOMAIN cdb \cup DOMAIN tdb) \ undecodable
    /\ undecodable' = undecodable \cup {k}
    /\ UNCHANGED <<cdb, cdisk, tdb, tdisk, mapBlockIndex, nLoads, hist, polls, pcursor, ev>>

\* store db with the row of key k moved to the key's first n components
Truncated(db, k, n) ==
    IF k \in DOMAIN db
    THEN [x \in (DOMAIN db \ {k}) \cup {SubSeq(k, 1, n)} |->
             IF x = SubSeq(k, 1, n) THEN db[k] ELSE db[x]]
    ELSE db

\* The stored bytes of the key of one block-tree row are cut short.
TruncateKey(k, n) ==
    /\ ev.op = "idle"
    /\ k \in DOMAIN tdb
    /\ n \in 1..(Len(k) - 1)
    /\ SubSeq(k, 1, n) \notin DOMAIN tdb
    /\ tdb' = Truncated(tdb, k, n)
    /\ tdisk' = Truncated(tdisk, k, n)
    /\ UNCHANGED <<cdb, cdisk, mapBlockIndex, nLoads, hist, undecodable, polls, pcursor, ev>>

\* Another thread requests the interruption of the scanning thread, in time
\* for the poll that follows n more.
RequestInterruption(n) ==
    /\ ev.op = "idle"
    /\ polls = NoInterruption
    /\ polls' = n
    /\ UNCHANGED <<cdb, cdisk, tdb, tdisk, mapBlockIndex, nLoads, hist, undecodable,
                   pcursor, ev>>

Idle == [op |-> "idle"]

\* The caller takes the result of the last operation.
Return ==
    /\ ev.op # "idle"
    /\ ev' = Idle
    /\ UNCHANGED <<cdb, cdisk, tdb, tdisk, mapBlockIndex, nLoads, hist, undecodable, polls, pcursor>>

\* The callers of the point reads.
CallGetAnchorAt(rt) ==
    /\ ev.op = "idle"
    /\ ev' = [op |-> "GetAnchorAt", rt |-> rt, ret |-> GetAnchorAt(cdb, rt).ok,
              tree |-> GetAnchorAt(cdb, rt).tree]
    /\ UNCHANGED <<cdb, cdisk, tdb, tdisk, mapBlockIndex, nLoads, hist, undecodable, polls, pcursor>>

CallHaveCoins(txid) ==
    /\ ev.op = "idle"
    /\ ev' = [op |-> "HaveCoins", txid |-> txid, ret |-> HaveCoins(cdb, txid),
              got |-> GetCoins(cdb, txid).ok]
    /\ UNCHANGED <<cdb, cdisk, tdb, tdisk, mapBlockIndex, nLoads, hist, undecodable, polls, pcursor>>

CallGetNullifier(nf) ==
    /\ ev.op = "idle"
    /\ ev' = [op |-> "GetNullifier", nf |-> nf, ret |-> GetNullifier(cdb, nf)]
    /\ UNCHANGED <<cdb, cdisk, tdb, tdisk, mapBlockIndex, nLoads, hist, undecodable, polls, pcursor>>

CallGetBest ==
    /\ ev.op = "idle"
    /\ ev' = [op |-> "GetBest", hashBlock |-> GetBestBlock(cdb),
              hashAnchor |-> GetBestAnchor(cdb)]
    /\ UNCHANGED <<cdb, cdisk, tdb, tdisk, mapBlockIndex, nLoads, hist, undecodable, polls, pcursor>>

\* what GetStats leaves to its caller
StatsEvent(r, snapshot) ==
    [op |-> "GetStats", ret |-> r.ret, crashed |-> r.crashed,
     interrupted |-> r.interrupted, stats |-> r.stats, snapshot |-> snapshot]

CallGetStats ==
    /\ ev.op = "idle"
    /\ ~pcursor.open
    /\ \E r \in GetStats(cdb, mapBlockIndex) :
          /\ ev' = StatsEvent(r, cdb)
          /\ polls' = PollsAfter(r.interrupted)
    /\ UNCHANGED <<cdb, cdisk, tdb, tdisk, mapBlockIndex, nLoads, hist, undecodable,
                   pcursor>>

\* GetStats in two steps, for the writers that commit while it runs.
\* lines 169-170: the cursor is created and positioned
GetStatsNewIterator ==
    /\ ev.op = "idle"
    /\ ~pcursor.open
    /\ pcursor' = [open |-> TRUE, snapshot |-> cdb]
    /\ UNCHANGED <<cdb, cdisk, tdb, tdisk, mapBlockIndex, nLoads, hist, undecodable,
                   polls, ev>>

\* lines 172-208: the best block is read and the cursor iterated
GetStatsScan ==
    /\ ev.op = "idle"
    /\ pcursor.open
    /\ \E r \in GetStatsAt(pcursor.snapshot, cdb, mapBlockIndex) :
          /\ ev' = StatsEvent(r, pcursor.snapshot)
          /\ polls' = PollsAfter(r.interrupted)
    /\ pcursor' = NoCursor
    /\ UNCHANGED <<cdb, cdisk, tdb, tdisk, mapBlockIndex, nLoads, hist, undecodable>>

CallReadSpentIndex(key) ==
    LET r == ReadSpentIndex(tdb, key)
    IN  /\ ev.op = "idle"
        /\ ev' = [op |-> "ReadSpentIndex", key |-> key, ret |-> r.ok, value |-> r.val]
        /\ UNCHANGED <<cdb, cdisk, tdb, tdisk, mapBlockIndex, nLoads, hist, undecodable, polls, pcursor>>

\* The point lookups, each one read of the store behind a few lines of code.
\* What a lookup hands back when the read returns: its result on stores c
\* (coin set) and t (block tree).
LookupResult(c, t, name, arg) ==
    CASE name = "GetCoins" -> GetCoins(c, arg)
      [] name = "HaveCoins" -> [ok |-> HaveCoins(c, arg)]
      [] name = "GetAnchorAt" -> GetAnchorAt(c, arg)
      [] name = "GetNullifier" -> [ok |-> GetNullifier(c, arg)]
      [] name = "GetBestBlock" -> [val |-> GetBestBlock(c)]
      [] name = "GetBestAnchor" -> [val |-> GetBestAnchor(c)]
      [] name = "ReadTxIndex" -> ReadTxIndex(t, arg)
      [] name = "ReadFlag" -> ReadFlag(t, arg, FALSE)
      [] name = "ReadReindexing" -> ReadReindexing(t)
      [] name = "ReadLastBlockFile" -> ReadLastBlockFile(t)
      [] name = "ReadBlockFileInfo" -> ReadBlockFileInfo(t, arg)

\* line 47: GetAnchorAt answers the empty root without a read of the store
ReadsStore(name, arg) == ~(name = "GetAnchorAt" /\ arg = EmptyRoot)

\* the call returned result
Returned(result) == [threw |-> FALSE, result |-> result]

\* CDBWrapper::Read, Exists: a failed read of the store is thrown as an error
Threw == [threw |-> TRUE]

TryBlocks_AroundBestBlock == {"GetBestBlock"}

\* lines 46-85, 145-163, 231-244, 374-380: the lookups with a handler around
\* their read, which would turn the error into the lookup's default: none
TryBlocks == {}

\* One lookup; io tells whether the store's read succeeds.
CallLookup(name, arg, io) ==
    /\ ev.op = "idle"
    /\ ev' = [op |-> "Lookup", name |-> name, arg |-> arg, io |-> io,
              out |-> IF io \/ ~ReadsStore(name, arg)
                      THEN Returned(LookupResult(cdb, tdb, name, arg))
                      ELSE IF name \in TryBlocks
                      THEN Returned(LookupResult(EmptyDb, EmptyDb, name, arg))
                      ELSE Threw]
    /\ UNCHANGED <<cdb, cdisk, tdb, tdisk, mapBlockIndex, nLoads, hist, undecodable, polls, pcursor>>

CallReadAddressUnspentIndex(addressHash, type) ==
    LET r == ReadAddressUnspentIndex(tdb, addressHash, type)
    IN  /\ ev.op = "idle"
        /\ ev' = [op |-> "ReadAddressUnspentIndex", addressHash |-> addressHash,
                  type |-> type, ret |-> r.ret, out |-> r.out, interrupted |-> r.interrupted]
        /\ polls' = PollsAfter(r.interrupted)
        /\ UNCHANGED <<cdb, cdisk, tdb, tdisk, mapBlockIndex, nLoads, hist, undecodable,
                       pcursor>>

CallReadAddressIndex(addressHash, type, start, end) ==
    LET r == ReadAddressIndex(tdb, addressHash, type, start, end)
    IN  /\ ev.op = "idle"
        /\ ev' = [op |-> "ReadAddressIndex", addressHash |-> addressHash,
                  type |-> type, start |-> start, end |-> end,
                  ret |-> r.ret, out |-> r.out, interrupted |-> r.interrupted]
        /\ polls' = PollsAfter(r.interrupted)
        /\ UNCHANGED <<cdb, cdisk, tdb, tdisk, mapBlockIndex, nLoads, hist, undecodable,
                       pcursor>>

CallReadTimestampIndex(high, low) ==
    LET r == ReadTimestampIndex(tdb, high, low)
    IN  /\ ev.op = "idle"
        /\ ev' = [op |-> "ReadTimestampIndex", high |-> high, low |-> low,
                  ret |-> r.ret, hashes |-> r.hashes, interrupted |-> r.interrupted]
        /\ polls' = PollsAfter(r.interrupted)
        /\ UNCHANGED <<cdb, cdisk, tdb, tdisk, mapBlockIndex, nLoads, hist, undecodable,
                       pcursor>>

CallLoadBlockIndexGuts ==
    LET r == LoadBlockIndexGuts(tdb, mapBlockIndex)
    IN  /\ ev.op = "idle"
        /\ mapBlockIndex' = r.graph
        /\ nLoads' = nLoads + 1
        /\ ev' = [op |-> "LoadBlockIndexGuts", ret |-> r.ret,
                  interrupted |-> r.interrupted, graphBefore |-> mapBlockIndex]
        /\ polls' = PollsAfter(r.interrupted)
        /\ UNCHANGED <<cdb, cdisk, tdb, tdisk, hist, undecodable, pcursor>>

Init ==
    /\ cdb = EmptyDb
    /\ cdisk = EmptyDb
    /\ tdb = EmptyDb
    /\ tdisk = EmptyDb
    /\ mapBlockIndex = NoMap
    /\ nLoads = 0
    /\ hist = [nf |-> NoMap, bestBlock |-> NullHash, bestAnchor |-> NullHash, spent |-> NoMap]
    /\ undecodable = {}
    /\ polls = NoInterruption
    /\ pcursor = NoCursor
    /\ ev = Idle

(***************************************************************************)
(* The coin table of the coin-set store: overlays of coin entries.         *)
(***************************************************************************)
ApplyCoins ==
    \E mapCoins \in MapsUpTo(TxIds, CoinsEntries, MaxEntries) :
      \E hashBlock \in {NullHash} \cup BlockHashes :
        \E ok \in BOOLEAN :
          BatchWrite(mapCoins, hashBlock, NullHash, NoMap, NoMap, ok)

ReadCoins == \E txid \in TxIds : CallHaveCoins(txid)

NextCoins == ApplyCoins \/ ReadCoins \/ Return

SpecCoins == Init /\ [][NextCoins]_vars

(***************************************************************************)
(* The anchor table of the coin-set store: overlays of anchor entries.     *)
(***************************************************************************)
ApplyAnchors ==
    \E mapAnchors \in MapsUpTo(Roots, AnchorsEntries, MaxEntries) :
      \E hashAnchor \in {NullHash} \cup Roots :
        \E ok \in BOOLEAN :
          BatchWrite(NoMap, NullHash, hashAnchor, mapAnchors, NoMap, ok)

ReadAnchor == \E rt \in Roots : CallGetAnchorAt(rt)

NextAnchors == ApplyAnchors \/ ReadAnchor \/ Return

SpecAnchors == Init /\ [][NextAnchors]_vars

(***************************************************************************)
(* Every batched writer of both stores, on the smallest inputs that give   *)
(* each a batch of one or two operations.                                  *)
(***************************************************************************)
\* a block-index node as the writers receive it: GetBlockHash() and fields
Block1 == [hash |-> 1, hashPrev |-> NullHash, nHeight |-> 0, nBits |-> 3]

CoinsSample == [dirty : {TRUE}, coins : {[i \in {1, 2} |-> 1], [i \in {1, 2} |-> NullOut]}]

BatchApply ==
    \E mapCoins \in MapsUpTo({1}, CoinsSample, 1) :
      \E hashBlock \in {NullHash} \cup BlockHashes :
        \E ok \in BOOLEAN :
          BatchWrite(mapCoins, hashBlock, NullHash, NoMap, NoMap, ok)

BatchWriteBlocks ==
    \E fileInfo \in {<< >>, << <<0, 1>> >>} :
      \E blockinfo \in {<< >>, <<Block1>>} :
        \E ok \in BOOLEAN :
          WriteBatchSync(fileInfo, 0, blockinfo, ok)

BatchEraseBlocks == \E ok \in BOOLEAN : EraseBatchSync(<<Block1>>, ok)

BatchTxIndex == \E ok \in BOOLEAN : WriteTxIndex(<< <<(<<1>>), 1>> >>, ok)

BatchSpentIndex ==
    \E v \in {NullValue, 1} : \E ok \in BOOLEAN :
        UpdateSpentIndex(<< <<(<<1, 0>>), v>> >>, ok)

BatchAddressUnspentIndex ==
    \E v \in {NullValue, 1} : \E ok \in BOOLEAN :
        UpdateAddressUnspentIndex(<< <<(<<1, 1, 1, 0>>), v>> >>, ok)

BatchWriteAddressIndex ==
    \E ok \in BOOLEAN : WriteAddressIndex(<< <<(<<1, 1, 1, 1, 0>>), 1>> >>, ok)

BatchEraseAddressIndex ==
    \E ok \in BOOLEAN : EraseAddressIndex(<< <<(<<1, 1, 1, 1, 0>>), 1>> >>, ok)

BatchTimestampIndex == \E ok \in BOOLEAN : WriteTimestampIndex(<<1, 1>>, ok)

NextBatch ==
    \/ BatchApply
    \/ BatchWriteBlocks
    \/ BatchEraseBlocks
    \/ BatchTxIndex
    \/ BatchSpentIndex
    \/ BatchAddressUnspentIndex
    \/ BatchWriteAddressIndex
    \/ BatchEraseAddressIndex
    \/ BatchTimestampIndex
    \/ Return

SpecBatch == Init /\ [][NextBatch]_vars

(***************************************************************************)
(* Durability: the forced-durable and the other writers, the write-back of *)
(* the log and a crash.                                                    *)
(***************************************************************************)
NextDurable ==
    \/ BatchApply
    \/ BatchWriteBlocks
    \/ BatchEraseBlocks
    \/ BatchTxIndex
    \/ BatchSpentIndex
    \/ BatchAddressUnspentIndex
    \/ Flush
    \/ Crash
    \/ Return

SpecDurable == Init /\ [][NextDurable]_vars

(***************************************************************************)
(* The address index: records of two index types and two addresses over a  *)
(* window of heights, and the range reader.                                *)
(***************************************************************************)
MaxHeight == 2      \* block heights 0..MaxHeight
MaxRecords == 3     \* rows of one secondary index kept at a time

IndexTypes == {1, 2}
AddressHashes == {1, 2}
Heights == 0..MaxHeight

\* CAddressIndexKey: (type, hashBytes, blockHeight, txhash, index)
AddressIndexKeys == {<<t, a, h, 1, 0>> : t \in IndexTypes, a \in AddressHashes, h \in Heights}

\* CAddressUnspentKey: (type, hashBytes, txhash, index)
AddressUnspentKeys == {<<t, a, x, 0>> : t \in IndexTypes, a \in AddressHashes, x \in TxIds}

Rows(db, disc) == {k \in DOMAIN db : k[1] = disc}

AddAddressIndex ==
    \E key \in AddressIndexKeys : \E ok \in BOOLEAN :
        /\ Cardinality(Rows(tdb, DB_ADDRESSINDEX)) < MaxRecords
        /\ WriteAddressIndex(<< <<key, 1>> >>, ok)

DropAddressIndex ==
    \E key \in AddressIndexKeys : \E ok \in BOOLEAN :
        /\ <<DB_ADDRESSINDEX>> \o key \in DOMAIN tdb
        /\ EraseAddressIndex(<< <<key, 1>> >>, ok)

QueryAddressIndex ==
    \E addressHash \in AddressHashes : \E type \in IndexTypes :
      \E start \in Heights : \E end \in Heights :
        CallReadAddressIndex(addressHash, type, start, end)

NextAddressIndex == AddAddressIndex \/ DropAddressIndex \/ QueryAddressIndex \/ Return

SpecAddressIndex == Init /\ [][NextAddressIndex]_vars

(***************************************************************************)
(* The address-unspent index and its reader.                               *)
(***************************************************************************)
UpdateAddressUnspent ==
    \E key \in AddressUnspentKeys : \E v \in {NullValue, 1} : \E ok \in BOOLEAN :
        /\ v = NullValue \/ Cardinality(Rows(tdb, DB_ADDRESSUNSPENTINDEX)) < MaxRecords
        /\ UpdateAddressUnspentIndex(<< <<key, v>> >>, ok)

QueryAddressUnspent ==
    \E addressHash \in AddressHashes : \E type \in IndexTypes :
        CallReadAddressUnspentIndex(addressHash, type)

NextAddressUnspent == UpdateAddressUnspent \/ QueryAddressUnspent \/ Return

SpecAddressUnspent == Init /\ [][NextAddressUnspent]_vars

(***************************************************************************)
(* The timestamp index and its reader, with rows of the tables that follow *)
(* it in key order.                                                        *)
(***************************************************************************)
MaxTime == 2        \* block timestamps 0..MaxTime

Timestamps == 0..MaxTime

AddTimestamp ==
    \E timestamp \in Timestamps : \E blockHash \in {1, 2} : \E ok \in BOOLEAN :
        WriteTimestampIndex(<<timestamp, blockHash>>, ok)

QueryTimestamp ==
    \E high \in Timestamps : \E low \in Timestamps : CallReadTimestampIndex(high, low)

NextTimestamp ==
    \/ AddTimestamp
    \/ BatchWriteAddressIndex
    \/ QueryTimestamp
    \/ Return

SpecTimestamp == Init /\ [][NextTimestamp]_vars

(***************************************************************************)
(* The block index: records written and erased by the forced-durable       *)
(* writers, and the load of the graph at startup and again after a repair. *)
(***************************************************************************)
MaxBlocks == 2      \* Block Index Records kept at a time
MaxLoads == 2       \* LoadBlockIndexGuts calls of one process
NumIndexHash == 4   \* block hashes 1..NumIndexHash name the records

\* The nodes handed to the writers: GetBlockHash() is the key, the rest the
\* stored fields.  A node whose hash is not the hash of its header stands for
\* a record damaged on disk.
BlockNodes ==
    [hash : 1..NumIndexHash, hashPrev : {NullHash, 1, 2}, nHeight : {0}, nBits : {1, 2}]

WriteBlocks ==
    \E pindex \in BlockNodes : \E ok \in BOOLEAN :
        /\ Cardinality(Rows(tdb, DB_BLOCK_INDEX)) < MaxBlocks
        /\ WriteBatchSync(<< >>, 0, <<pindex>>, ok)

EraseBlocks ==
    \E pindex \in BlockNodes : \E ok \in BOOLEAN :
        /\ <<DB_BLOCK_INDEX, pindex.hash>> \in DOMAIN tdb
        /\ CDiskBlockIndex(pindex) = tdb[<<DB_BLOCK_INDEX, pindex.hash>>]
        /\ EraseBatchSync(<<pindex>>, ok)

LoadBlocks == nLoads < MaxLoads /\ CallLoadBlockIndexGuts

NextLoad == WriteBlocks \/ EraseBlocks \/ LoadBlocks \/ Return

SpecLoad == Init /\ [][NextLoad]_vars

(***************************************************************************)
(* The nullifier table of the coin-set store: overlays of nullifier        *)
(* entries.                                                                *)
(***************************************************************************)
ApplyNullifiers ==
    \E mapNullifiers \in MapsUpTo(Nullifiers, NullifiersEntries, MaxEntries) :
      \E hashBlock \in {NullHash} \cup BlockHashes :
        \E ok \in BOOLEAN :
          BatchWrite(NoMap, hashBlock, NullHash, NoMap, mapNullifiers, ok)

ReadNullifier == \E nf \in Nullifiers : CallGetNullifier(nf)

NextNullifiers == ApplyNullifiers \/ ReadNullifier \/ Return

SpecNullifiers == Init /\ [][NextNullifiers]_vars

(***************************************************************************)
(* One apply call with all three overlays and both best pointers, on one   *)
(* key of each table.                                                      *)
(***************************************************************************)
AnchorsSample == [dirty : BOOLEAN, entered : BOOLEAN, tree : {<<1>>}]

ApplyAll ==
    \E mapCoins \in MapsUpTo({1}, CoinsSample \cup [dirty : {FALSE}, coins : {[i \in {1, 2} |-> NullOut], [i \in {1, 2} |-> 1]}], 1) :
      \E mapAnchors \in MapsUpTo({EmptyRoot + 1}, AnchorsSample, 1) :
        \E mapNullifiers \in MapsUpTo({1}, NullifiersEntries, 1) :
          \E hashBlock \in {NullHash} \cup BlockHashes :
            \E hashAnchor \in {NullHash} \cup Roots :
              \E ok \in BOOLEAN :
                BatchWrite(mapCoins, hashBlock, hashAnchor, mapAnchors, mapNullifiers, ok)

ReadBest == CallGetBest

NextApply == ApplyAll \/ ReadBest \/ Return

SpecApply == Init /\ [][NextApply]_vars

(***************************************************************************)
(* The audit scan: coin records of one or two outputs of different values, *)
(* a best block, and the graph loaded from a stored genesis record.        *)
(***************************************************************************)
StatsCoins == {<<NullOut, NullOut>>, <<2, NullOut>>, <<1, 2>>}

\* the genesis node as the writer receives it; its hash is the hash of its header
StatsGenesis == [hash |-> 1, hashPrev |-> NullHash, nHeight |-> 0, nBits |-> 1]

ApplyStats ==
    \E mapCoins \in MapsUpTo(TxIds, [dirty : {TRUE}, coins : StatsCoins], MaxEntries) :
      \E hashBlock \in {NullHash} \cup BlockHashes :
        \E ok \in BOOLEAN :
          BatchWrite(mapCoins, hashBlock, NullHash, NoMap, NoMap, ok)

WriteGenesis == \E ok \in BOOLEAN : WriteBatchSync(<< >>, 0, <<StatsGenesis>>, ok)

AuditScan == CallGetStats

NextStats == ApplyStats \/ WriteGenesis \/ LoadBlocks \/ AuditScan \/ Return

SpecStats == Init /\ [][NextStats]_vars

(***************************************************************************)
(* The spent index: calls with several entries, some for the same key.     *)
(***************************************************************************)
MaxVect == 2        \* entries handed to one UpdateSpentIndex call

\* CSpentIndexKey: (txid, outputIndex)
SpentKeys == {<<1, 0>>, <<2, 0>>}
SpentValues == {NullValue, 1, 2}

UpdateSpent ==
    \E n \in 0..MaxVect : \E vect \in [1..n -> SpentKeys \X SpentValues] :
      \E ok \in BOOLEAN :
        UpdateSpentIndex(vect, ok)

QuerySpent == \E key \in SpentKeys : CallReadSpentIndex(key)

NextSpent == UpdateSpent \/ QuerySpent \/ Return

SpecSpent == Init /\ [][NextSpent]_vars

(***************************************************************************)
(* The point lookups of both stores, over a store that answers its reads   *)
(* or fails them, with one record of each table written, erased or absent. *)
(***************************************************************************)
Lookups ==
    ({"GetCoins", "HaveCoins", "GetNullifier", "ReadTxIndex", "ReadFlag"} \X {1})
    \cup ({"GetAnchorAt"} \X Roots)
    \cup ({"GetBestBlock", "GetBestAnchor", "ReadReindexing", "ReadLastBlockFile",
           "ReadBlockFileInfo"} \X {0})

\* one apply that enters or removes one record of each table of the coin set
LookupApply ==
    \E entered \in BOOLEAN : \E best \in BOOLEAN : \E ok \in BOOLEAN :
        BatchWrite((1 :> [dirty |-> TRUE,
                          coins |-> IF entered THEN <<1, 1>> ELSE <<NullOut, NullOut>>]),
                   IF best THEN 1 ELSE NullHash,
                   IF best THEN EmptyRoot + 1 ELSE NullHash,
                   (EmptyRoot + 1 :> [dirty |-> TRUE, entered |-> entered, tree |-> <<1>>]),
                   (1 :> [dirty |-> TRUE, entered |-> entered]),
                   ok)

LookupWriteFlags ==
    \E f \in BOOLEAN : \E ok \in BOOLEAN :
        \/ WriteReindexing(f, ok)
        \/ WriteFlag(1, f, ok)

LookupRead == \E l \in Lookups : \E io \in BOOLEAN : CallLookup(l[1], l[2], io)

NextLookup ==
    \/ LookupApply
    \/ LookupWriteFlags
    \/ BatchTxIndex
    \/ BatchWriteBlocks
    \/ LookupRead
    \/ Return

SpecLookup == Init /\ [][NextLookup]_vars

(***************************************************************************)
(* Damaged values: rows of the four tables that the scans read the values  *)
(* of, with rows of other tables after them, and stored values that no     *)
(* longer decode.                                                          *)
(***************************************************************************)
MaxDamaged == 1     \* rows with a damaged value at a time

DecodeApply ==
    BatchWrite([t \in {1} |-> [dirty |-> TRUE, coins |-> <<1, 1>>]], 1, NullHash, NoMap,
               [n \in {1} |-> [dirty |-> TRUE, entered |-> TRUE]], TRUE)

DecodeWriteUnspent ==
    \E key \in {<<1, 1, 1, 0>>, <<1, 1, 2, 0>>, <<1, 2, 1, 0>>} :
        UpdateAddressUnspentIndex(<< <<key, 1>> >>, TRUE)

DecodeWriteAddressIndex ==
    \E key \in {<<1, 1, 0, 1, 0>>, <<1, 2, 0, 1, 0>>} :
        WriteAddressIndex(<< <<key, 1>> >>, TRUE)

DecodeWriteBlock == WriteBatchSync(<< >>, 0, <<StatsGenesis>>, TRUE)

DecodeDamage ==
    \E k \in DOMAIN cdb \cup DOMAIN tdb :
        /\ k[1] \in {DB_COINS, DB_NULLIFIER, DB_BLOCK_INDEX, DB_ADDRESSINDEX,
                     DB_ADDRESSUNSPENTINDEX}
        /\ Cardinality(undecodable) < MaxDamaged
        /\ DamageValue(k)

DecodeScan ==
    \/ CallGetStats
    \/ \E addressHash \in AddressHashes : CallReadAddressUnspentIndex(addressHash, 1)
    \/ \E addressHash \in AddressHashes : CallReadAddressIndex(addressHash, 1, 0, 0)
    \/ LoadBlocks

NextDecode ==
    \/ DecodeApply
    \/ DecodeWriteUnspent
    \/ DecodeWriteAddressIndex
    \/ DecodeWriteBlock
    \/ DecodeDamage
    \/ DecodeScan
    \/ Return

SpecDecode == Init /\ [][NextDecode]_vars

(***************************************************************************)
(* Damaged keys: rows of the address-unspent and timestamp indexes, and    *)
(* stored keys cut short.                                                  *)
(***************************************************************************)
\* the rows of db whose key has the discriminator disc and fewer than n components
ShortKeys(db, disc, n) == {k \in DOMAIN db : k[1] = disc /\ ~GetKey(k, n)}

TruncateRow ==
    \E k \in DOMAIN tdb : \E n \in 1..(Len(k) - 1) :
        /\ Cardinality(ShortKeys(tdb, DB_ADDRESSUNSPENTINDEX, 5)
                           \cup ShortKeys(tdb, DB_TIMESTAMPINDEX, 3)) < MaxDamaged
        /\ TruncateKey(k, n)

TruncateWriteTimestamp ==
    \E timestamp \in {1, 2} : WriteTimestampIndex(<<timestamp, 1>>, TRUE)

TruncateScan ==
    \/ \E addressHash \in AddressHashes : CallReadAddressUnspentIndex(addressHash, 1)
    \/ QueryTimestamp

NextTruncate ==
    \/ DecodeWriteUnspent
    \/ TruncateWriteTimestamp
    \/ TruncateRow
    \/ TruncateScan
    \/ Return

SpecTruncate == Init /\ [][NextTruncate]_vars

(***************************************************************************)
(* Interruption: rows of every scanned table, and the interruption of the  *)
(* scanning thread requested before or while a scan runs.                  *)
(***************************************************************************)
MaxPolls == 2       \* records a scan passes before a requested interruption is seen

CancelWriteUnspent ==
    UpdateAddressUnspentIndex(<< <<(<<1, 1, 1, 0>>), 1>>, <<(<<1, 1, 2, 0>>), 1>> >>, TRUE)

CancelWriteAddressIndex ==
    WriteAddressIndex(<< <<(<<1, 1, 0, 1, 0>>), 1>>, <<(<<1, 1, 1, 1, 0>>), 1>> >>, TRUE)

CancelRequest == \E n \in 0..MaxPolls : RequestInterruption(n)

CancelScan ==
    \/ DecodeScan
    \/ CallReadTimestampIndex(MaxTime, 0)

NextCancel ==
    \/ DecodeApply
    \/ CancelWriteUnspent
    \/ CancelWriteAddressIndex
    \/ TruncateWriteTimestamp
    \/ DecodeWriteBlock
    \/ CancelRequest
    \/ CancelScan
    \/ Return

SpecCancel == Init /\ [][NextCancel]_vars

(***************************************************************************)
(* The audit scan beside a writer: apply calls that commit between the     *)
(* creation of the scan's cursor and the rest of the scan.                 *)
(***************************************************************************)
NextRace ==
    \/ ApplyStats
    \/ WriteGenesis
    \/ LoadBlocks
    \/ GetStatsNewIterator
    \/ GetStatsScan
    \/ Return

SpecRace == Init /\ [][NextRace]_vars

(***************************************************************************)
(* The graph a load builds: records of a genesis block and of its child,   *)
(* under keys in either order.                                             *)
(***************************************************************************)
GraphNodes == [hash : {1, 2, 4}, hashPrev : {NullHash, 1}, nHeight : {0}, nBits : {1, 2}]

WriteGraphBlocks ==
    \E pindex \in GraphNodes :
        /\ Cardinality(Rows(tdb, DB_BLOCK_INDEX)) < MaxBlocks
        /\ WriteBatchSync(<< >>, 0, <<pindex>>, TRUE)

NextGraph == WriteGraphBlocks \/ LoadBlocks \/ Return

SpecGraph == Init /\ [][NextGraph]_vars

(***************************************************************************)
(* Claims about the coin table.                                            *)
(***************************************************************************)
Applied == ev.op = "BatchWrite" /\ ev.ret

\* C1 as stated: after an apply that commits, has_coin(txid) is true iff the
\* overlay's coin entry for txid is unpruned and is dirty or was previously
\* persisted.
C1_AsStated ==
    Applied =>
        \A txid \in DOMAIN ev.mapCoins :
            HaveCoins(cdb, txid) <=>
                /\ ~IsPruned(ev.mapCoins[txid].coins)
                /\ ev.mapCoins[txid].dirty \/ HaveCoins(ev.before, txid)

\* C1 amended: after an apply that commits, has_coin(txid) and get_coin(txid)
\* succeed iff the overlay's coin entry for txid is dirty and unpruned, or is
\* not dirty and a Coin Record for txid was persisted before the call; a dirty
\* pruned entry reads as absent afterwards.
C1_HaveCoinsAfterApply ==
    Applied =>
        \A txid \in DOMAIN ev.mapCoins :
            LET e == ev.mapCoins[txid]
                expected == \/ e.dirty /\ ~IsPruned(e.coins)
                            \/ ~e.dirty /\ HaveCoins(ev.before, txid)
            IN  /\ HaveCoins(cdb, txid) <=> expected
                /\ GetCoins(cdb, txid).ok <=> expected
                /\ (e.dirty /\ IsPruned(e.coins)) =>
                       ~HaveCoins(cdb, txid) /\ ~GetCoins(cdb, txid).ok

\* C1 witness: a dirty pruned entry applied over a persisted Coin Record, which
\* then reads as absent.
C1_Witness ==
    /\ Applied
    /\ \E txid \in DOMAIN ev.mapCoins :
           /\ ev.mapCoins[txid].dirty
           /\ IsPruned(ev.mapCoins[txid].coins)
           /\ HaveCoins(ev.before, txid)
           /\ ~HaveCoins(cdb, txid)

(***************************************************************************)
(* Claims about the anchor table.                                          *)
(***************************************************************************)
\* C9: get_anchor(empty_root) succeeds and returns the canonical empty tree in
\* every reachable store state, whatever anchor entries were applied.
C9_EmptyRootAlwaysReadable ==
    /\ GetAnchorAt(cdb, EmptyRoot) = [ok |-> TRUE, tree |-> EmptyTree]
    /\ (ev.op = "GetAnchorAt" /\ ev.rt = EmptyRoot) => (ev.ret /\ ev.tree = EmptyTree)

\* C9 witness: the empty root is read from a store in which an apply left a
\* non-empty tree under the empty root's key, and the empty tree comes back.
C9_Witness ==
    /\ ev.op = "GetAnchorAt" /\ ev.rt = EmptyRoot /\ ev.ret /\ ev.tree = EmptyTree
    /\ <<DB_ANCHOR, EmptyRoot>> \in DOMAIN cdb
    /\ cdb[<<DB_ANCHOR, EmptyRoot>>] # EmptyTree

\* C10 as stated: no sequence of apply calls leaves a stored Anchor Record whose
\* key is the empty-tree root.
C10_EmptyRootNeverStored == <<DB_ANCHOR, EmptyRoot>> \notin DOMAIN cdb

(***************************************************************************)
(* Claims about batches.                                                   *)
(***************************************************************************)
BatchedOps ==
    {"BatchWrite", "WriteBatchSync", "EraseBatchSync", "WriteTxIndex", "UpdateSpentIndex",
     "UpdateAddressUnspentIndex", "WriteAddressIndex", "EraseAddressIndex",
     "WriteTimestampIndex"}

StoreOf(e) == IF e.store = "coins" THEN cdb ELSE tdb

\* C4: when the commit of a batch fails, the operation returns failure and every
\* key keeps its pre-call value; when it succeeds, every put and delete of the
\* batch is applied; the store never shows only a part of the batch.
C4_BatchAllOrNothing ==
    ev.op \in BatchedOps =>
        /\ ev.ret => StoreOf(ev) = ApplyBatch(ev.before, ev.batch)
        /\ ~ev.ret => StoreOf(ev) = ev.before
        /\ \A n \in 1..(Len(ev.batch) - 1) :
               LET part == ApplyBatch(ev.before, SubSeq(ev.batch, 1, n))
               IN  (part # ev.before /\ part # ApplyBatch(ev.before, ev.batch))
                       => StoreOf(ev) # part

\* C4 witness: a batch of two operations, each of which would change the store,
\* fails to commit and the store is as before the call.
C4_Witness ==
    /\ ev.op \in BatchedOps
    /\ ~ev.ret
    /\ Len(ev.batch) >= 2
    /\ ApplyBatch(ev.before, SubSeq(ev.batch, 1, 1)) # ev.before
    /\ ApplyBatch(ev.before, ev.batch) # ApplyBatch(ev.before, SubSeq(ev.batch, 1, 1))
    /\ StoreOf(ev) = ev.before

\* The tables that only the forced-durable writers write.
SyncedTables == {DB_BLOCK_FILES, DB_LAST_BLOCK, DB_BLOCK_INDEX}

SyncedPart(db) == [k \in {x \in DOMAIN db : x[1] \in SyncedTables} |-> db[k]]

\* C5: a batch committed by write_block_files_and_index or erase_block_index is
\* never lost by a later crash: a crash leaves the block-file, last-file and
\* block-index rows as committed.  What a crash does lose is lost in whole
\* batches: the stable image of a store only ever changes to the committed
\* content of that store.
C5_SyncedBatchesSurviveCrash ==
    /\ [](ev.op = "Crash" => SyncedPart(tdb) = SyncedPart(ev.tdbBefore))
    /\ [][(cdisk' # cdisk => cdisk' = cdb') /\ (tdisk' # tdisk => tdisk' = tdb')]_vars

\* C5 witness: a crash after which a committed coin batch and a committed
\* secondary-index batch are gone while the block-index rows committed with
\* them are still there.
C5_Witness ==
    /\ ev.op = "Crash"
    /\ cdb # ev.cdbBefore
    /\ <<DB_COINS, 1>> \in DOMAIN ev.cdbBefore /\ <<DB_COINS, 1>> \notin DOMAIN cdb
    /\ <<DB_SPENTINDEX, 1, 0>> \in DOMAIN ev.tdbBefore
    /\ <<DB_SPENTINDEX, 1, 0>> \notin DOMAIN tdb
    /\ <<DB_BLOCK_INDEX, 1>> \in DOMAIN tdb

(***************************************************************************)
(* Claims about the range readers.                                         *)
(***************************************************************************)
\* The rows of table disc whose key components satisfy want, without the
\* discriminator.
Stored(db, disc, want(_)) == {Tail(k) : k \in {x \in Rows(db, disc) : want(Tail(x))}}

OutKeys(out) == {out[i][1] : i \in DOMAIN out}

\* C6 as stated: read_address_index(addr, type, h1, h2), for any h1 <= h2
\* (h1 = 0 and h2 = 0 included), returns exactly the stored records of that
\* address and type with h1 <= height <= h2, in ascending height order.
C6_ExactHeightWindow ==
    (ev.op = "ReadAddressIndex" /\ ev.start <= ev.end) =>
        LET want(k) == /\ k[1] = ev.type
                       /\ k[2] = ev.addressHash
                       /\ ev.start <= k[3]
                       /\ k[3] <= ev.end
        IN  /\ ev.ret
            /\ OutKeys(ev.out) = Stored(tdb, DB_ADDRESSINDEX, want)
            /\ Len(ev.out) = Cardinality(OutKeys(ev.out))
            /\ \A i \in DOMAIN ev.out : \A j \in DOMAIN ev.out :
                   i < j => ev.out[i][1][3] <= ev.out[j][1][3]

\* C7: read_timestamp_index(low, high) returns exactly the block hashes of the
\* stored Timestamp Index Records with low <= timestamp <= high, one per record.
C7_ExactTimeWindow ==
    ev.op = "ReadTimestampIndex" =>
        LET want(k) == ev.low <= k[1] /\ k[1] <= ev.high
            records == Stored(tdb, DB_TIMESTAMPINDEX, want)
        IN  /\ ev.ret
            /\ Len(ev.hashes) = Cardinality(records)
            /\ \A h \in {1, 2} :
                   Cardinality({i \in DOMAIN ev.hashes : ev.hashes[i] = h})
                       = Cardinality({k \in records : k[2] = h})

\* C7 witness: a read over a window that leaves out a record below it and a
\* record above it and returns the hash of the record inside it, with rows of
\* another table after the timestamp rows.
C7_Witness ==
    /\ ev.op = "ReadTimestampIndex"
    /\ ev.low = 1 /\ ev.high = 1
    /\ {<<DB_TIMESTAMPINDEX, 0, 1>>, <<DB_TIMESTAMPINDEX, 1, 2>>,
         <<DB_TIMESTAMPINDEX, 2, 1>>} \subseteq DOMAIN tdb
    /\ Rows(tdb, DB_ADDRESSINDEX) # {}
    /\ ev.hashes = <<2>>

\* C8 as stated: read_address_unspent_index(address, type) returns exactly the
\* stored Address-Unspent Records whose index type and address hash both equal
\* the requested ones.
C8_ExactAddressAndType ==
    ev.op = "ReadAddressUnspentIndex" =>
        LET want(k) == k[1] = ev.type /\ k[2] = ev.addressHash
        IN  /\ ev.ret
            /\ OutKeys(ev.out) = Stored(tdb, DB_ADDRESSUNSPENTINDEX, want)

(***************************************************************************)
(* Claims about the load of the block index.                               *)
(***************************************************************************)
Loaded == ev.op = "LoadBlockIndexGuts"

\* C2 as stated: load_block_index returns failure whenever the store holds a
\* Block Index Record whose key hash differs from the identity hash recomputed
\* from the record's stored header fields.
C2_KeyHashMismatchFails ==
    (Loaded /\ \E k \in Rows(tdb, DB_BLOCK_INDEX) : k[2] # DiskGetBlockHash(tdb[k]))
        => ~ev.ret

\* C3 as stated: when load_block_index fails on a consistency check, the graph
\* afterwards is the graph before the call.
C3_FailedLoadLeavesGraph ==
    (Loaded /\ ~ev.ret) => mapBlockIndex = ev.graphBefore

(***************************************************************************)
(* Claims about apply: the coin, anchor and nullifier tables and the best  *)
(* pointers.                                                               *)
(***************************************************************************)
\* C11: in every state reached by apply calls, no stored Coin Record is pruned:
\* a Coin Record is stored only for a transaction with an unspent output.
C11_NoPrunedCoinStored ==
    \A k \in Rows(cdb, DB_COINS) : ~IsPruned(cdb[k])

\* C11 witness: a dirty pruned entry was applied and committed while the store
\* holds a Coin Record of another transaction.
C11_Witness ==
    /\ Applied
    /\ \E txid \in DOMAIN ev.mapCoins :
           /\ ev.mapCoins[txid].dirty /\ IsPruned(ev.mapCoins[txid].coins)
           /\ <<DB_COINS, txid>> \in DOMAIN ev.before
    /\ Rows(cdb, DB_COINS) # {}

Called == ev.op = "BatchWrite"

\* The dirty entries of an overlay that are not entered and whose key is not
\* stored before the call.
EraseOfAbsent(map, disc) ==
    {x \in DOMAIN map : /\ map[x].dirty /\ ~map[x].entered
                        /\ <<disc, x>> \notin DOMAIN ev.before}

\* C13: a dirty anchor or nullifier entry with entered = false for a key that is
\* not stored does not make apply fail and leaves the store without that key;
\* an overlay of nothing but such entries leaves the store as before the call.
C13_EraseOfAbsentIsNoOp ==
    Called =>
        LET ea == EraseOfAbsent(ev.mapAnchors, DB_ANCHOR)
            en == EraseOfAbsent(ev.mapNullifiers, DB_NULLIFIER)
        IN  /\ \A rt \in ea : <<DB_ANCHOR, rt>> \notin DOMAIN cdb
            /\ \A nf \in en : <<DB_NULLIFIER, nf>> \notin DOMAIN cdb
            /\ ( /\ ea = DOMAIN ev.mapAnchors /\ en = DOMAIN ev.mapNullifiers
                 /\ ev.mapCoins = NoMap
                 /\ ev.hashBlock = NullHash /\ ev.hashAnchor = NullHash )
                    => cdb = ev.before

\* C13 witness: an apply of a not-entered anchor entry and a not-entered
\* nullifier entry, neither key stored, commits and the store is as before.
C13_Witness ==
    /\ Applied
    /\ EraseOfAbsent(ev.mapAnchors, DB_ANCHOR) # {}
    /\ EraseOfAbsent(ev.mapNullifiers, DB_NULLIFIER) # {}
    /\ ev.before # EmptyDb
    /\ cdb = ev.before

\* C14: apply changes the stored best-block pointer only when it commits a
\* non-null block hash, and the stored best-anchor pointer only when it commits
\* a non-null anchor hash; otherwise the pointer keeps its value or stays absent.
C14_BestPointersOnlyNonNull ==
    Called =>
        /\ Read(cdb, <<DB_BEST_BLOCK>>) =
               IF ev.ret /\ ev.hashBlock # NullHash
               THEN [ok |-> TRUE, val |-> ev.hashBlock]
               ELSE Read(ev.before, <<DB_BEST_BLOCK>>)
        /\ Read(cdb, <<DB_BEST_ANCHOR>>) =
               IF ev.ret /\ ev.hashAnchor # NullHash
               THEN [ok |-> TRUE, val |-> ev.hashAnchor]
               ELSE Read(ev.before, <<DB_BEST_ANCHOR>>)

\* C14 witness: an apply with a null block hash and a non-null anchor hash over
\* a store with both pointers set: the block pointer is kept, the anchor
\* pointer replaced.
C14_Witness ==
    /\ Applied
    /\ ev.hashBlock = NullHash /\ ev.hashAnchor # NullHash
    /\ Read(ev.before, <<DB_BEST_BLOCK>>).ok
    /\ Read(ev.before, <<DB_BEST_ANCHOR>>).ok
    /\ Read(ev.before, <<DB_BEST_ANCHOR>>).val # ev.hashAnchor
    /\ GetBestBlock(cdb) = GetBestBlock(ev.before)
    /\ GetBestAnchor(cdb) = ev.hashAnchor

\* C15 as stated: get_best_anchor returns the empty-tree root exactly when no
\* non-null best anchor has been committed and otherwise the last one
\* committed; get_best_block returns the null hash exactly when no non-null best
\* block has been committed and otherwise the last one committed.
C15_AsStated ==
    /\ GetBestAnchor(cdb) = EmptyRoot <=> hist.bestAnchor = NullHash
    /\ hist.bestAnchor # NullHash => GetBestAnchor(cdb) = hist.bestAnchor
    /\ GetBestBlock(cdb) = NullHash <=> hist.bestBlock = NullHash
    /\ hist.bestBlock # NullHash => GetBestBlock(cdb) = hist.bestBlock

\* C15 amended: get_best_anchor returns the last non-null best anchor committed,
\* and the empty-tree root when none has been committed (the empty-tree root
\* can itself be the committed best anchor); get_best_block returns the null
\* hash exactly when no non-null best block has been committed and otherwise
\* the last one committed.
C15_BestPointersRead ==
    /\ GetBestAnchor(cdb) = IF hist.bestAnchor = NullHash THEN EmptyRoot ELSE hist.bestAnchor
    /\ GetBestBlock(cdb) = hist.bestBlock
    /\ GetBestBlock(cdb) = NullHash <=> hist.bestBlock = NullHash
    /\ ev.op = "GetBest" =>
           /\ ev.hashBlock = hist.bestBlock
           /\ ev.hashAnchor = IF hist.bestAnchor = NullHash THEN EmptyRoot
                               ELSE hist.bestAnchor

\* C15 witness: the pointers are read after a best block and a best anchor
\* other than the empty-tree root were committed, then an apply with null
\* hashes: the read returns the committed ones.
C15_Witness ==
    /\ ev.op = "GetBest"
    /\ hist.bestBlock # NullHash
    /\ hist.bestAnchor \notin {NullHash, EmptyRoot}
    /\ ev.hashBlock = hist.bestBlock
    /\ ev.hashAnchor = hist.bestAnchor

\* C16: when apply returns, whether the commit succeeded or failed, the coin,
\* anchor and nullifier maps of the caller are empty.
C16_OverlaysDrained ==
    Called =>
        /\ ev.mapCoinsAfter = NoMap
        /\ ev.mapAnchorsAfter = NoMap
        /\ ev.mapNullifiersAfter = NoMap

\* C16 witness: an apply whose commit fails, called with a clean entry in each
\* of the three maps.
C16_Witness ==
    /\ Called /\ ~ev.ret
    /\ \E x \in DOMAIN ev.mapCoins : ~ev.mapCoins[x].dirty
    /\ \E x \in DOMAIN ev.mapAnchors : ~ev.mapAnchors[x].dirty
    /\ \E x \in DOMAIN ev.mapNullifiers : ~ev.mapNullifiers[x].dirty
    /\ ev.mapCoinsAfter = NoMap /\ ev.mapAnchorsAfter = NoMap
    /\ ev.mapNullifiersAfter = NoMap

\* C17: after any sequence of apply calls, get_nullifier(n) is true iff the last
\* dirty nullifier entry committed for n had entered = true; a nullifier never
\* committed, or last committed with entered = false, reads as absent.
C17_NullifierReadsLastCommitted ==
    /\ \A nf \in Nullifiers :
           GetNullifier(cdb, nf) <=> (nf \in DOMAIN hist.nf /\ hist.nf[nf])
    /\ ev.op = "GetNullifier" =>
           (ev.ret <=> (ev.nf \in DOMAIN hist.nf /\ hist.nf[ev.nf]))

\* C17 witness: a nullifier committed with entered = true and later with
\* entered = false reads as absent while another one still reads as present.
C17_Witness ==
    /\ ev.op = "GetNullifier" /\ ~ev.ret
    /\ ev.nf \in DOMAIN hist.nf /\ ~hist.nf[ev.nf]
    /\ \E nf \in Nullifiers : GetNullifier(cdb, nf)

(***************************************************************************)
(* Claims about the audit scan.                                            *)
(***************************************************************************)
\* The non-null outputs of the stored Coin Records: (key, output index).
UnspentOutputs(db) ==
    {x \in Rows(db, DB_COINS) \X {1, 2} : db[x[1]][x[2]] # NullOut}

RECURSIVE SumValues(_, _)
SumValues(db, S) ==
    IF S = {} THEN 0
    ELSE LET x == CHOOSE y \in S : TRUE
         IN  db[x[1]][x[2]] + SumValues(db, S \ {x})

\* C12: audit_scan reports nTransactions equal to the number of stored Coin
\* Records, nTransactionOutputs equal to the number of non-null outputs over
\* them, and nTotalAmount equal to the sum of the values of those outputs; a
\* fully spent transaction, being absent, contributes to none of them.
C12_AuditCounts ==
    (ev.op = "GetStats" /\ ev.ret) =>
        /\ ev.stats.nTransactions = Cardinality(Rows(cdb, DB_COINS))
        /\ ev.stats.nTransactionOutputs = Cardinality(UnspentOutputs(cdb))
        /\ ev.stats.nTotalAmount = SumValues(cdb, UnspentOutputs(cdb))

\* C12 witness: of two transactions applied, one was then applied fully spent
\* and is absent, the other has one unspent output of value 2 and one spent
\* output; the scan reports 1, 1 and 2.
C12_Witness ==
    /\ ev.op = "GetStats" /\ ev.ret
    /\ <<DB_COINS, 1>> \in DOMAIN cdb /\ cdb[<<DB_COINS, 1>>] = <<2, NullOut>>
    /\ <<DB_COINS, 2>> \notin DOMAIN cdb
    /\ GetBestBlock(cdb) \in DOMAIN mapBlockIndex
    /\ ev.stats.nTransactions = 1
    /\ ev.stats.nTransactionOutputs = 1
    /\ ev.stats.nTotalAmount = 2

(***************************************************************************)
(* Claims about the spent index.                                           *)
(***************************************************************************)
\* What the claim expects a read of key to return, from the entries supplied.
LastSupplied(key) ==
    IF key \in DOMAIN hist.spent /\ hist.spent[key] # NullValue
    THEN [ok |-> TRUE, val |-> hist.spent[key]]
    ELSE [ok |-> FALSE, val |-> 0]

\* C18: after any sequence of committed update_spent_index calls, reading key k
\* returns the value of the last entry supplied for k when it is non-null, and
\* absent when that entry had a null value or k was never supplied; within one
\* call the later of two entries for a key overrides the earlier.
C18_SpentIndexReadsLastSupplied ==
    /\ \A key \in SpentKeys : ReadSpentIndex(tdb, key) = LastSupplied(key)
    /\ ev.op = "ReadSpentIndex" =>
           [ok |-> ev.ret, val |-> ev.value] = LastSupplied(ev.key)

\* C18 witness: one committed call holds a non-null entry and then a null entry
\* for a key that was stored before; afterwards that key reads as absent and
\* another key still reads as present.
C18_Witness ==
    /\ ev.op = "UpdateSpentIndex" /\ ev.ret
    /\ Len(ev.batch) = 2
    /\ ev.batch[1].key = ev.batch[2].key
    /\ ev.batch[1].op = "W" /\ ev.batch[2].op = "E"
    /\ ev.batch[1].key \in DOMAIN ev.before
    /\ ev.batch[1].key \notin DOMAIN tdb
    /\ \E key \in SpentKeys : ReadSpentIndex(tdb, key).ok

(***************************************************************************)
(* Claims about the parent links of the loaded graph.                      *)
(***************************************************************************)
\* The hashes of the stored Block Index Records, as the load computes them.
RecordHashes(db) == {DiskGetBlockHash(db[k]) : k \in Rows(db, DB_BLOCK_INDEX)}

\* C19 as stated: whenever load_block_index succeeds, every node that is the
\* parent of some node was populated from a stored Block Index Record, and a
\* node without a parent is a populated genesis node: no placeholder is left.
C19_ParentsResolve ==
    (Loaded /\ ev.ret) =>
        \A h \in DOMAIN mapBlockIndex :
            /\ mapBlockIndex[h].pprev # NullHash =>
                   mapBlockIndex[h].pprev \in RecordHashes(tdb)
            /\ mapBlockIndex[h].pprev = NullHash => mapBlockIndex[h] # NewBlockIndex

(***************************************************************************)
(* Claims about the point lookups.                                         *)
(***************************************************************************)
\* C20: for every point lookup that reads the store, what the caller receives
\* when the key is absent differs from what it receives when the read of the
\* store fails.
C20_AbsentDiffersFromFailure ==
    (ev.op = "Lookup" /\ ReadsStore(ev.name, ev.arg)) =>
        LET absent == Returned(LookupResult(EmptyDb, EmptyDb, ev.name, ev.arg))
        IN  /\ ~ev.io => (ev.out.threw # absent.threw \/ ev.out.result # absent.result)
            /\ ev.io => ~ev.out.threw

\* C20 witness: get_best_block over a store whose best-block pointer was
\* committed, with a read that fails: the caller receives the error, not the
\* null hash of an absent pointer.
C20_Witness ==
    /\ ev.op = "Lookup" /\ ev.name = "GetBestBlock" /\ ~ev.io
    /\ <<DB_BEST_BLOCK>> \in DOMAIN cdb
    /\ ev.out.threw

\* the keys of the entries of an overlay that are not dirty
CleanKeys(map, disc) == {<<disc, x>> : x \in {y \in DOMAIN map : ~map[y].dirty}}

\* the keys of the dirty entries of an overlay
DirtyKeys(map, disc) == {<<disc, x>> : x \in {y \in DOMAIN map : map[y].dirty}}

\* key is stored now with the value it had before the call, or is absent as before
Untouched(key) ==
    /\ key \in DOMAIN cdb <=> key \in DOMAIN ev.before
    /\ key \in DOMAIN cdb => cdb[key] = ev.before[key]

\* C21: for every coin, anchor and nullifier key whose overlay entry is not
\* dirty, apply leaves the stored value as it was before the call, whether the
\* entry is pruned or unpruned, entered or not; every put and delete of the
\* batch belongs to a dirty entry or is a best pointer.
C21_CleanEntriesUntouched ==
    Called =>
        /\ \A key \in CleanKeys(ev.mapCoins, DB_COINS)
                        \cup CleanKeys(ev.mapAnchors, DB_ANCHOR)
                        \cup CleanKeys(ev.mapNullifiers, DB_NULLIFIER) : Untouched(key)
        /\ \A i \in DOMAIN ev.batch :
               ev.batch[i].key \in DirtyKeys(ev.mapCoins, DB_COINS)
                                     \cup DirtyKeys(ev.mapAnchors, DB_ANCHOR)
                                     \cup DirtyKeys(ev.mapNullifiers, DB_NULLIFIER)
                                     \cup {<<DB_BEST_BLOCK>>, <<DB_BEST_ANCHOR>>}

\* C21 witness: an apply that commits a best pointer with three entries that are
\* not dirty: a pruned coin entry over a stored Coin Record, an anchor entry that
\* is not entered over a stored anchor, an entered nullifier entry over a
\* nullifier that is not stored.
C21_Witness ==
    /\ Applied
    /\ ev.batch # << >>
    /\ \E txid \in DOMAIN ev.mapCoins :
          /\ ~ev.mapCoins[txid].dirty /\ IsPruned(ev.mapCoins[txid].coins)
          /\ <<DB_COINS, txid>> \in DOMAIN cdb
    /\ \E rt \in DOMAIN ev.mapAnchors :
          /\ ~ev.mapAnchors[rt].dirty /\ ~ev.mapAnchors[rt].entered
          /\ <<DB_ANCHOR, rt>> \in DOMAIN cdb
    /\ \E nf \in DOMAIN ev.mapNullifiers :
          /\ ~ev.mapNullifiers[nf].dirty /\ ev.mapNullifiers[nf].entered
          /\ <<DB_NULLIFIER, nf>> \notin DOMAIN cdb

(***************************************************************************)
(* Claims about damaged rows and interrupted scans.                        *)
(***************************************************************************)
\* The rows a scan of keys visits and decodes before it stops: the longest
\* run of keys from the first that match and whose values decode.
Decoded(keys, Match(_)) ==
    {keys[i] : i \in {n \in DOMAIN keys :
                        \A j \in 1..n : Match(keys[j]) /\ GetValue(keys[j])}}

\* The scan of keys stops at a matching row whose value does not decode.
DecodeFails(keys, Match(_)) ==
    \E i \in DOMAIN keys :
        /\ Match(keys[i]) /\ ~GetValue(keys[i])
        /\ \A j \in 1..(i - 1) : Match(keys[j]) /\ GetValue(keys[j])

MeetsShortKey(keys, disc, n, Match(_)) ==
    \E i \in DOMAIN keys :
        /\ keys[i][1] = disc /\ ~GetKey(keys[i], n)
        /\ \A j \in 1..(i - 1) : Match(keys[j]) /\ GetValue(keys[j])

\* C23 as stated: a scan that meets a key with the expected discriminator that
\* is truncated returns failure; it does not end successfully as if the prefix
\* were exhausted.
C23_MalformedKeyIsHardError ==
    /\ ev.op = "ReadAddressUnspentIndex" =>
          LET keys == Seek(tdb, <<DB_ADDRESSUNSPENTINDEX, ev.type, ev.addressHash>>)
              Match(k) == /\ GetKey(k, 5) /\ k[1] = DB_ADDRESSUNSPENTINDEX
                          /\ k[3] = ev.addressHash
          IN  MeetsShortKey(keys, DB_ADDRESSUNSPENTINDEX, 5, Match) => ~ev.ret
    /\ ev.op = "ReadTimestampIndex" =>
          LET keys == Seek(tdb, <<DB_TIMESTAMPINDEX, ev.low>>)
              Match(k) == /\ GetKey(k, 3) /\ k[1] = DB_TIMESTAMPINDEX
                          /\ TimestampInRange(k[2], ev.high)
          IN  MeetsShortKey(keys, DB_TIMESTAMPINDEX, 3, Match) => ~ev.ret

ScanOps ==
    {"GetStats", "ReadAddressUnspentIndex", "ReadAddressIndex", "ReadTimestampIndex",
     "LoadBlockIndexGuts"}

\* the keys in front of the cursor of the scan that event e reports
CursorKeys(e) ==
    CASE e.op = "GetStats" -> Seek(cdb, <<DB_COINS>>)
      [] e.op = "ReadAddressUnspentIndex" ->
             Seek(tdb, <<DB_ADDRESSUNSPENTINDEX, e.type, e.addressHash>>)
      [] e.op = "ReadAddressIndex" ->
             IF e.start > 0 /\ e.end > 0
             THEN Seek(tdb, <<DB_ADDRESSINDEX, e.type, e.addressHash, e.start>>)
             ELSE Seek(tdb, <<DB_ADDRESSINDEX, e.type, e.addressHash>>)
      [] e.op = "ReadTimestampIndex" -> Seek(tdb, <<DB_TIMESTAMPINDEX, e.low>>)
      [] e.op = "LoadBlockIndexGuts" -> Seek(tdb, <<DB_BLOCK_INDEX, NullHash>>)

\* the records the scan that event e reports has processed
Processed(e) ==
    CASE e.op = "GetStats" -> e.stats.nTransactions
      [] e.op \in {"ReadAddressUnspentIndex", "ReadAddressIndex"} -> Len(e.out)
      [] e.op = "ReadTimestampIndex" -> Len(e.hashes)

\* the hashes that the first n of keys name: the records' own and their previous
HashesOf(keys, n) ==
    UNION {{DiskGetBlockHash(tdb[keys[i]]), tdb[keys[i]].hashPrev} :
              i \in {j \in DOMAIN keys : j <= n /\ keys[j][1] = DB_BLOCK_INDEX}}

\* C24: each of the five scans polls the interruption before it processes a
\* record.  With the interruption seen at the poll that follows n passes, the
\* scan processes at most n records, is interrupted instead of returning a
\* result when a further row is in front of the cursor, and leaves both stores
\* as they were; without a requested interruption no scan is interrupted.
C24_InterruptedScanStops ==
    [][(ev.op = "idle" /\ ev'.op \in ScanOps) =>
          /\ cdb' = cdb /\ tdb' = tdb /\ cdisk' = cdisk /\ tdisk' = tdisk
          /\ ev'.interrupted => ~ev'.ret
          /\ polls = NoInterruption => ~ev'.interrupted
          /\ (polls # NoInterruption /\ ev'.op # "LoadBlockIndexGuts") =>
                /\ Processed(ev') <= polls
                /\ (Processed(ev') = polls /\ Len(CursorKeys(ev')) > polls)
                       => ev'.interrupted
          /\ (polls # NoInterruption /\ ev'.op = "LoadBlockIndexGuts") =>
                /\ (DOMAIN mapBlockIndex') \ DOMAIN mapBlockIndex
                       \subseteq HashesOf(CursorKeys(ev'), polls)
                /\ (polls = 0 /\ CursorKeys(ev') # << >>)
                       => ev'.interrupted /\ mapBlockIndex' = mapBlockIndex
      ]_vars

\* C24 witness: ReadAddressUnspentIndex was interrupted at its second poll, with
\* one of the two rows of the address pushed.
C24_Witness ==
    /\ ev.op = "ReadAddressUnspentIndex"
    /\ ev.interrupted
    /\ Len(ev.out) = 1
    /\ Cardinality(Rows(tdb, DB_ADDRESSUNSPENTINDEX)) = 2

\* the record stored under key k passes the proof-of-work check
PassesWork(k) == CheckProofOfWork(DiskGetBlockHash(tdb[k]), tdb[k].nBits)

\* C25 as stated: load_block_index returns failure when it meets a Block Index
\* Record whose recomputed hash fails the proof-of-work check against the stored
\* bits, and inserts nothing for the records behind it; it returns success only
\* if every record has the hash of its key and passes the proof-of-work check.
C25_LoadChecksEveryRecord ==
    Loaded =>
        LET keys == Seek(tdb, <<DB_BLOCK_INDEX, NullHash>>)
        IN  /\ \A i \in DOMAIN keys :
                   (keys[i][1] = DB_BLOCK_INDEX /\ ~PassesWork(keys[i])) =>
                       /\ ~ev.ret
                       /\ (DOMAIN mapBlockIndex) \ DOMAIN ev.graphBefore
                              \subseteq HashesOf(keys, i)
            /\ ev.ret => \A k \in Rows(tdb, DB_BLOCK_INDEX) :
                             k[2] = DiskGetBlockHash(tdb[k]) /\ PassesWork(k)

\* the previous hashes the stored records declare
PrevHashes(db) == {db[k].hashPrev : k \in Rows(db, DB_BLOCK_INDEX)} \ {NullHash}

\* C26: after a load that succeeds, in whatever order the records were scanned,
\* the graph holds one node for each hash a record has or declares as its
\* previous and no other new node; the node of a record's hash carries that
\* record's fields, also when it was inserted as a placeholder before the
\* record was met; and the parent link of the node is the node of the previous
\* hash the record declares.
C26_OneNodePerHash ==
    (Loaded /\ ev.ret) =>
        /\ DOMAIN mapBlockIndex
               = DOMAIN ev.graphBefore \cup RecordHashes(tdb) \cup PrevHashes(tdb)
        /\ \A k \in Rows(tdb, DB_BLOCK_INDEX) :
               LET node == mapBlockIndex[DiskGetBlockHash(tdb[k])]
               IN  /\ node = [pprev |-> tdb[k].hashPrev, nHeight |-> tdb[k].nHeight,
                              nBits |-> tdb[k].nBits]
                   /\ node.pprev # NullHash => node.pprev \in DOMAIN mapBlockIndex

\* C26 witness: a load into an empty graph succeeded on two records, the row of
\* the child in front of the row of its parent, so that the parent's node was
\* a placeholder when the parent's record was met.
C26_Witness ==
    /\ Loaded /\ ev.ret
    /\ ev.graphBefore = NoMap
    /\ \E c \in Rows(tdb, DB_BLOCK_INDEX) : \E p \in Rows(tdb, DB_BLOCK_INDEX) :
          /\ KeyLess(c, p)
          /\ tdb[c].hashPrev = DiskGetBlockHash(tdb[p])
          /\ mapBlockIndex[DiskGetBlockHash(tdb[c])].pprev = DiskGetBlockHash(tdb[p])
          /\ mapBlockIndex[DiskGetBlockHash(tdb[p])].nBits = tdb[p].nBits

(***************************************************************************)
(* Claims about the audit scan beside a writer and its height lookup.      *)
(***************************************************************************)
\* C27 as stated: when apply calls commit while GetStats runs, the best-block
\* hash that GetStats reports and seeds its content hash with is the best block
\* of the store content whose Coin Records it aggregates.
C27_AuditOfOneState ==
    (ev.op = "GetStats" /\ ev.ret) =>
        /\ ev.stats.hashBlock = GetBestBlock(ev.snapshot)
        /\ Head(ev.stats.hashSerialized) = GetBestBlock(ev.snapshot)

\* C28 as stated: whenever GetStats reaches its height lookup, in any state it
\* can be called in (a store without a best-block pointer and a best block
\* without a node included), the graph holds a node for the best-block hash
\* looked up: the height is never read through a missing entry.
C28_HeightLookupFindsNode ==
    (ev.op = "GetStats" /\ (ev.ret \/ ev.crashed)) =>
        ev.stats.hashBlock \in DOMAIN mapBlockIndex

====
